---- MODULE Spec2Model ----
(***************************************************************************)
(* Model of the natural-language deadline / reminder resolver of the       *)
(* task-manager bot (src/task-manager-bot/bot_advanced.py):                *)
(* parse_deadline, extract_deadline_from_text, parse_reminder and the       *)
(* normalize_voice_text that prepares their input.                         *)
(* The last part models the reminders of the schedule bot                  *)
(* (src/schedule-bot/bot.py): send_reminders and edit_field_value.         *)
(*                                                                         *)
(* Texts are strings; the regular expressions of the source are written    *)
(* as syntax trees and run by a backtracking matcher with the semantics    *)
(* of Python's re module (leftmost match, alternatives in order, greedy    *)
(* repetition).                                                            *)
(*                                                                         *)
(* The source's Russian vocabulary is written in Latin letters, because    *)
(* the module's strings are ASCII.  Letter by letter:                      *)
(*   a-a  b-b  v-v  g-g  d-d  e-e  zh-zh z-z  i-i  j-i kratkoe  k-k  l-l   *)
(*   m-m  n-n  o-o  p-p  r-r  s-s  t-t  u-u  f-f  x-kha  c-tse  ch-che     *)
(*   sh-sha  y-yery  q-soft sign  yu-yu  ya-ya  yo-yo                      *)
(* so that  zavtra = tomorrow, segodnya = today, poslezavtra = the day     *)
(* after tomorrow, utra/dnya/vechera/nochi = the four time-of-day words,   *)
(* v = the preposition "at", do = "until", za = "before", cherez = "in".   *)
(* A character class over Cyrillic letters whose transliteration has two   *)
(* letters is written as an alternation, e.g. [soft sign, ya] as (q|ya).   *)
(***************************************************************************)
EXTENDS Integers, Sequences, FiniteSets, TLC

VARIABLES
    now_dt,      \* the value now() returns: the reference instant (naive)
    text,        \* the text argument of the call
    deadline,    \* the deadline argument of parse_reminder (None if absent)
    pc,          \* "ready" before the call, then the name of the function called
    result,      \* what the call returned
    normalized,  \* the local variable normalized of normalize_voice_text
    step,        \* the index of the next entry of replacements to apply
    once,        \* the results of the earlier calls of normalize_voice_text
    calls,       \* the concurrent calls: arguments, local variables, result
    clock,       \* the instant now() returns to a concurrent call
    data,        \* schedule bot: the events of the user in the data file
    loaded,      \* the events get_events_for_reminder loaded for this run
    events_to_remind,  \* the reminders send_reminders still has to send
    delivered,   \* the reminders that reached the user, in order
    wall         \* the instant now() returns in the schedule bot

vars == <<now_dt, text, deadline, pc, result, normalized, step, once, calls, clock,
          data, loaded, events_to_remind, delivered, wall>>

\* the variables of the schedule bot
sched_vars == <<data, loaded, events_to_remind, delivered, wall>>

\* the variables of the concurrent calls
call_vars == <<calls, clock>>

\* the variables of a call of normalize_voice_text
voice_vars == <<normalized, step, once>>

\* Python's None
None == <<>>

\* no call of normalize_voice_text is in progress
NoVoice == normalized = "" /\ step = 0 /\ once = None

\* no concurrent calls
NoCalls == calls = <<>> /\ clock = None

\* no schedule
NoSchedule ==
    /\ data = <<>>
    /\ loaded = <<>>
    /\ events_to_remind = <<>>
    /\ delivered = <<>>
    /\ wall = None

(***************************************************************************)
(* Characters and strings (Python str methods).                            *)
(***************************************************************************)
Digit == {"0", "1", "2", "3", "4", "5", "6", "7", "8", "9"}

LowerLetter == {"a", "b", "c", "d", "e", "f", "g", "h", "i", "j", "k", "l", "m",
                "n", "o", "p", "q", "r", "s", "t", "u", "v", "w", "x", "y", "z"}

UpperLetter == {"A", "B", "C", "D", "E", "F", "G", "H", "I", "J", "K", "L", "M",
                "N", "O", "P", "Q", "R", "S", "T", "U", "V", "W", "X", "Y", "Z"}

\* \w of the re module
WordChar == LowerLetter \cup UpperLetter \cup Digit \cup {"_"}

\* \s of the re module
Space == {" "}

\* s[i] with Python's 0-based index
CharAt(s, i) == SubSeq(s, i + 1, i + 1)

\* s[i:j]
Slice(s, i, j) == IF j <= i THEN "" ELSE SubSeq(s, i + 1, j)

LowerOf(c) ==
    CASE c = "A" -> "a" [] c = "B" -> "b" [] c = "C" -> "c" [] c = "D" -> "d"
      [] c = "E" -> "e" [] c = "F" -> "f" [] c = "G" -> "g" [] c = "H" -> "h"
      [] c = "I" -> "i" [] c = "J" -> "j" [] c = "K" -> "k" [] c = "L" -> "l"
      [] c = "M" -> "m" [] c = "N" -> "n" [] c = "O" -> "o" [] c = "P" -> "p"
      [] c = "Q" -> "q" [] c = "R" -> "r" [] c = "S" -> "s" [] c = "T" -> "t"
      [] c = "U" -> "u" [] c = "V" -> "v" [] c = "W" -> "w" [] c = "X" -> "x"
      [] c = "Y" -> "y" [] c = "Z" -> "z" [] OTHER -> c

\* s[i:j] in lower case, by halves
RECURSIVE LowerFrom(_, _, _)
LowerFrom(s, i, j) ==
    IF j <= i THEN ""
    ELSE IF j = i + 1 THEN LowerOf(CharAt(s, i))
    ELSE LowerFrom(s, i, (i + j) \div 2) \o LowerFrom(s, (i + j) \div 2, j)

\* str.lower()
Lower(s) == LowerFrom(s, 0, Len(s))

\* the first position from i on that holds no space, or len(s)
LStripPos(s, i) ==
    CHOOSE a \in i..Len(s) :
        /\ \A q \in i..(a - 1) : CharAt(s, q) \in Space
        /\ a = Len(s) \/ CharAt(s, a) \notin Space

\* the end of the last character before j that is no space, or 0
RStripPos(s, j) ==
    CHOOSE b \in 0..j :
        /\ \A q \in b..(j - 1) : CharAt(s, q) \in Space
        /\ b = 0 \/ CharAt(s, b - 1) \notin Space

\* str.strip()
Strip(s) ==
    LET i == LStripPos(s, 0) IN
    IF i >= Len(s) THEN "" ELSE Slice(s, i, RStripPos(s, Len(s)))

\* str.startswith(p)
StartsWith(s, p) == Len(p) <= Len(s) /\ Slice(s, 0, Len(p)) = p

\* p in s
Contains(s, p) ==
    \E i \in 0..(Len(s) - Len(p)) : Slice(s, i, i + Len(p)) = p

RECURSIVE SplitFrom(_, _)
SplitFrom(s, i) ==
    LET a == LStripPos(s, i) IN
    IF a >= Len(s) THEN <<>>
    ELSE LET b == CHOOSE j \in (a + 1)..Len(s) :
                      /\ j = Len(s) \/ CharAt(s, j) \in Space
                      /\ \A m \in a..(j - 1) : CharAt(s, m) \notin Space
         IN <<Slice(s, a, b)>> \o SplitFrom(s, b)

\* str.split()
Split(s) == SplitFrom(s, 0)

DigitVal(c) ==
    CASE c = "0" -> 0 [] c = "1" -> 1 [] c = "2" -> 2 [] c = "3" -> 3
      [] c = "4" -> 4 [] c = "5" -> 5 [] c = "6" -> 6 [] c = "7" -> 7
      [] c = "8" -> 8 [] c = "9" -> 9

IsDigits(s) == Len(s) > 0 /\ \A i \in 0..(Len(s) - 1) : CharAt(s, i) \in Digit

RECURSIVE IntFrom(_, _, _)
IntFrom(s, i, acc) ==
    IF i >= Len(s) THEN acc
    ELSE IntFrom(s, i + 1, acc * 10 + DigitVal(CharAt(s, i)))

\* int(s) of a string of digits
Int_(s) == IntFrom(s, 0, 0)

(***************************************************************************)
(* Regular expressions: syntax trees and the matcher of re.                *)
(***************************************************************************)
Lit(s) == [t |-> "lit", s |-> s]
Set(S) == [t |-> "set", s |-> S]
Cat(a) == [t |-> "cat", a |-> a]
Alt(a) == [t |-> "alt", a |-> a]
\* greedy repetition r{lo,hi}; hi = -1 stands for no upper limit
Rep(r, lo, hi) == [t |-> "rep", r |-> r, lo |-> lo, hi |-> hi]
Opt(r) == Rep(r, 0, 1)
Star(r) == Rep(r, 0, -1)
Plus(r) == Rep(r, 1, -1)
\* capturing group number n
Grp(n, r) == [t |-> "grp", n |-> n, r |-> r]
GrpEnd(n, st) == [t |-> "end", n |-> n, st |-> st]
WB == [t |-> "wb"]
BOL == [t |-> "bol"]
EOL == [t |-> "eol"]
\* negative lookahead (?!r)
NotAhead(r) == [t |-> "nla", r |-> r]

MaxGroups == 5
NoGroup == <<-1, -1>>
NoGroups == [n \in 1..MaxGroups |-> NoGroup]
NoMatch == [ok |-> FALSE]

IsWordAt(s, i) == i >= 0 /\ i < Len(s) /\ CharAt(s, i) \in WordChar

\* the longest run of characters of cs in s from position i, at most hi long
\* (hi < 0: of any length)
Run(cs, s, i, hi) ==
    CHOOSE n \in 0..(IF hi < 0 \/ i + hi > Len(s) THEN Len(s) - i ELSE hi) :
        /\ \A q \in 0..(n - 1) : CharAt(s, i + q) \in cs
        /\ \/ n = (IF hi < 0 \/ i + hi > Len(s) THEN Len(s) - i ELSE hi)
           \/ CharAt(s, i + n) \notin cs

\* the first of two attempts that matches
FirstOk(try, other) == IF try.ok THEN try ELSE other

\* the kind of the first node of k
First(k) == IF Len(k) = 0 THEN "" ELSE Head(k).t

\* r cannot match at position i unless CanStart(r, s, i)
RECURSIVE CanStart(_, _, _)
CanStart(r, s, i) ==
    CASE r.t = "lit" -> i + Len(r.s) <= Len(s) /\ Slice(s, i, i + Len(r.s)) = r.s
      [] r.t = "set" -> i < Len(s) /\ CharAt(s, i) \in r.s
      [] r.t = "grp" -> CanStart(r.r, s, i)
      [] r.t = "cat" /\ Len(r.a) > 0 -> CanStart(r.a[1], s, i)
      [] r.t = "rep" /\ r.lo > 0 -> CanStart(r.r, s, i)
      [] OTHER -> TRUE

\* the alternatives of a, from the j-th on, that can start at position i
Viable(a, j, s, i) == {q \in j..Len(a) : CanStart(a[q], s, i)}

FirstOf(positions) == CHOOSE j \in positions : \A q \in positions : j <= q

\* M(k, s, i, g): match the sequence of nodes k against s from position i
\* with the groups g captured so far; the first match in backtracking order.
RECURSIVE M(_, _, _, _)
RECURSIVE MAlt(_, _, _, _, _)
RECURSIVE MRun(_, _, _, _, _, _)
RECURSIVE MRunGrp(_, _, _, _, _, _, _)
M(k, s, i, g) ==
    CASE First(k) = "" -> [ok |-> TRUE, e |-> i, g |-> g]
      [] First(k) = "lit" /\ CanStart(Head(k), s, i) ->
           M(Tail(k), s, i + Len(Head(k).s), g)
      [] First(k) = "set" /\ CanStart(Head(k), s, i) -> M(Tail(k), s, i + 1, g)
      [] First(k) = "cat" -> M(Head(k).a \o Tail(k), s, i, g)
      [] First(k) = "alt" ->
           MAlt(Head(k).a, Viable(Head(k).a, 1, s, i), s, i, [k |-> Tail(k), g |-> g])
      [] First(k) = "rep" /\ Head(k).hi = 0 -> M(Tail(k), s, i, g)
      [] First(k) = "rep" /\ Head(k).r.t = "set" ->
           MRun(Run(Head(k).r.s, s, i, Head(k).hi), Head(k).lo, Tail(k), s, i, g)
      [] First(k) = "rep" /\ Head(k).lo > 0 ->
           M(<<Head(k).r, Rep(Head(k).r, Head(k).lo - 1,
                              IF Head(k).hi < 0 THEN -1 ELSE Head(k).hi - 1)>>
             \o Tail(k), s, i, g)
      [] First(k) = "rep" /\ ~CanStart(Head(k).r, s, i) -> M(Tail(k), s, i, g)
      [] First(k) = "rep" ->
           FirstOk(M(<<Head(k).r, Rep(Head(k).r, 0,
                                      IF Head(k).hi < 0 THEN -1
                                      ELSE Head(k).hi - 1)>>
                     \o Tail(k), s, i, g),
                   M(Tail(k), s, i, g))
      [] First(k) = "grp" /\ Head(k).r.t = "rep" /\ Head(k).r.r.t = "set" ->
           MRunGrp(Run(Head(k).r.r.s, s, i, Head(k).r.hi), Head(k).r.lo,
                   Head(k).n, Tail(k), s, i, g)
      [] First(k) = "grp" ->
           M(<<Head(k).r, GrpEnd(Head(k).n, i)>> \o Tail(k), s, i, g)
      [] First(k) = "end" ->
           M(Tail(k), s, i, [g EXCEPT ![Head(k).n] = <<Head(k).st, i>>])
      [] First(k) = "wb" /\ IsWordAt(s, i - 1) # IsWordAt(s, i) ->
           M(Tail(k), s, i, g)
      [] First(k) = "bol" /\ i = 0 -> M(Tail(k), s, i, g)
      [] First(k) = "eol" /\ i = Len(s) -> M(Tail(k), s, i, g)
      [] First(k) = "nla" /\ ~M(<<Head(k).r>>, s, i, g).ok -> M(Tail(k), s, i, g)
      [] OTHER -> NoMatch
\* the alternatives of a listed in viable, in their order, each followed by
\* the nodes c.k with the groups c.g
MAlt(a, viable, s, i, c) ==
    IF viable = {} THEN NoMatch
    ELSE FirstOk(M(<<a[FirstOf(viable)]>> \o c.k, s, i, c.g),
                 MAlt(a, viable \ {FirstOf(viable)}, s, i, c))
\* a run of n characters of a repeated set, at least lo, then rest; the run
\* gives back one character at a time
MRun(n, lo, rest, s, i, g) ==
    IF n < lo THEN NoMatch
    ELSE FirstOk(M(rest, s, i + n, g), MRun(n - 1, lo, rest, s, i, g))
\* the same for a run that is the group gn
MRunGrp(n, lo, gn, rest, s, i, g) ==
    IF n < lo THEN NoMatch
    ELSE FirstOk(M(rest, s, i + n, [g EXCEPT ![gn] = <<i, i + n>>]),
                 MRunGrp(n - 1, lo, gn, rest, s, i, g))

\* a match object: the text, the span, the groups
MatchAt(p, s, i) ==
    LET m == M(<<p>>, s, i, NoGroups)
    IN IF m.ok THEN [ok |-> TRUE, s |-> s, b |-> i, e |-> m.e, g |-> m.g]
       ELSE NoMatch

\* re.match(p, s)
ReMatch(p, s) == MatchAt(p, s, 0)

\* the positions from i on where p matches
MatchPositions(p, s, i) == {j \in i..Len(s) : MatchAt(p, s, j).ok}

MatchAtFirst(p, s, positions) ==
    IF positions = {} THEN NoMatch ELSE MatchAt(p, s, FirstOf(positions))

\* the leftmost match of p in s from position i on
SearchFrom(p, s, i) == MatchAtFirst(p, s, MatchPositions(p, s, i))

\* re.search(p, s)
ReSearch(p, s) == SearchFrom(p, s, 0)

\* m.group(n) is not None: the group took part in the match
HasGroup(m, n) == m.g[n] # NoGroup

\* m.group(n)
Group(m, n) ==
    IF n = 0 THEN Slice(m.s, m.b, m.e)
    ELSE IF m.g[n] = NoGroup THEN None
    ELSE Slice(m.s, m.g[n][1], m.g[n][2])

\* a replacement template is a sequence of literal strings and group references
TS(s) == [k |-> "s", v |-> s]
TG(n) == [k |-> "g", v |-> n]

RECURSIVE Expand(_, _, _)
Expand(tmpl, m, j) ==
    IF j > Len(tmpl) THEN ""
    ELSE (IF tmpl[j].k = "g"
          THEN (IF HasGroup(m, tmpl[j].v) THEN Group(m, tmpl[j].v) ELSE "")
          ELSE tmpl[j].v) \o Expand(tmpl, m, j + 1)

\* re.sub(p, tmpl, s): every non-overlapping match, left to right
RECURSIVE SubFrom(_, _, _, _)
SubFrom(p, tmpl, s, i) ==
    IF i > Len(s) THEN ""
    ELSE LET m == SearchFrom(p, s, i)
         IN IF ~m.ok THEN Slice(s, i, Len(s))
            ELSE IF m.e = m.b
                 THEN Slice(s, i, m.b) \o Expand(tmpl, m, 1)
                      \o Slice(s, m.b, m.b + 1) \o SubFrom(p, tmpl, s, m.b + 1)
                 ELSE Slice(s, i, m.b) \o Expand(tmpl, m, 1)
                      \o SubFrom(p, tmpl, s, m.e)

ReSub(p, tmpl, s) == SubFrom(p, tmpl, s, 0)

D == Set(Digit)
S == Set(Space)
D12 == Rep(D, 1, 2)
D2 == Rep(D, 2, 2)
D4 == Rep(D, 4, 4)

(***************************************************************************)
(* datetime and timedelta of the standard library: the proleptic Gregorian *)
(* calendar, naive instants with microseconds.                             *)
(***************************************************************************)
MinYear == 1
MaxYear == 9999

IsLeap(y) == y % 4 = 0 /\ (y % 100 # 0 \/ y % 400 = 0)

DaysInMonth(y, m) ==
    IF m = 2 THEN (IF IsLeap(y) THEN 29 ELSE 28)
    ELSE IF m \in {4, 6, 9, 11} THEN 30 ELSE 31

\* the days of the year before the first of each month of a common year
DaysBeforeMonths == <<0, 31, 59, 90, 120, 151, 181, 212, 243, 273, 304, 334>>

DaysBeforeMonth(y, m) ==
    DaysBeforeMonths[m] + (IF m > 2 /\ IsLeap(y) THEN 1 ELSE 0)

DaysBeforeYear(y) ==
    LET p == y - 1 IN p * 365 + (p \div 4) - (p \div 100) + (p \div 400)

\* date.toordinal(): 1 for 0001-01-01
ToOrdinal(y, m, d) == DaysBeforeYear(y) + DaysBeforeMonth(y, m) + d

\* the year, month and day of an ordinal (date.fromordinal)
FromOrdinal(n) ==
    LET n0 == n - 1
        n400 == n0 \div 146097
        r400 == n0 % 146097
        n100 == r400 \div 36524
        r100 == r400 % 36524
        n4 == r100 \div 1461
        r4 == r100 % 1461
        n1 == r4 \div 365
        r1 == r4 % 365
        y == n400 * 400 + 1 + n100 * 100 + n4 * 4 + n1
    IN IF n1 = 4 \/ n100 = 4
       THEN [year |-> y - 1, month |-> 12, day |-> 31]
       ELSE LET m == CHOOSE k \in 1..12 :
                         /\ DaysBeforeMonth(y, k) <= r1
                         /\ r1 < DaysBeforeMonth(y, k) + DaysInMonth(y, k)
            IN [year |-> y, month |-> m, day |-> r1 - DaysBeforeMonth(y, m) + 1]

\* datetime(year, month, day, hour, minute, second) raises ValueError on
\* fields out of range
ValidDate(y, m, d) ==
    /\ y \in MinYear..MaxYear
    /\ m \in 1..12
    /\ d >= 1 /\ d <= DaysInMonth(y, m)

DateTime(y, m, d, h, mi, sec) ==
    [year |-> y, month |-> m, day |-> d,
     hour |-> h, minute |-> mi, second |-> sec, microsecond |-> 0]

\* dt.replace(hour=, minute=, second=, microsecond=)
Replace(dt, h, mi, sec, us) ==
    [dt EXCEPT !.hour = h, !.minute = mi, !.second = sec, !.microsecond = us]

Ordinal(dt) == ToOrdinal(dt.year, dt.month, dt.day)

SecondOfDay(dt) == dt.hour * 3600 + dt.minute * 60 + dt.second

\* dt + timedelta(days=days, seconds=secs); secs may be negative
AddDelta(dt, days, secs) ==
    LET total == SecondOfDay(dt) + secs
        ymd == FromOrdinal(Ordinal(dt) + days + (total \div 86400))
        sod == total % 86400
    IN [year |-> ymd.year, month |-> ymd.month, day |-> ymd.day,
        hour |-> sod \div 3600, minute |-> (sod % 3600) \div 60,
        second |-> sod % 60, microsecond |-> dt.microsecond]

AddDays(dt, n) == AddDelta(dt, n, 0)
AddMinutes(dt, n) == AddDelta(dt, 0, n * 60)

\* a < b on naive datetimes
Before(a, b) ==
    LET oa == Ordinal(a)
        ob == Ordinal(b)
        sa == SecondOfDay(a)
        sb == SecondOfDay(b)
    IN \/ oa < ob
       \/ oa = ob /\ sa < sb
       \/ oa = ob /\ sa = sb /\ a.microsecond < b.microsecond

\* dt.weekday(): Monday is 0
Weekday(dt) == (Ordinal(dt) + 6) % 7

(***************************************************************************)
(* parse_deadline                                                          *)
(***************************************************************************)
\* a rule that did not return: the function goes on to the next rule
Pass == [pass |-> TRUE]

\* number_words, in the order of the dictionary's keys
number_words ==
    << <<"odin", 1>>, <<"odna", 1>>, <<"odnu", 1>>, <<"dva", 2>>, <<"dve", 2>>,
       <<"tri", 3>>, <<"chetyre", 4>>, <<"pyatq", 5>>, <<"shestq", 6>>,
       <<"semq", 7>>, <<"vosemq", 8>>, <<"devyatq", 9>>, <<"desyatq", 10>>,
       <<"odinnadcatq", 11>>, <<"dvenadcatq", 12>>, <<"trinadcatq", 13>>,
       <<"chetyrnadcatq", 14>>, <<"pyatnadcatq", 15>>, <<"shestnadcatq", 16>>,
       <<"semnadcatq", 17>>, <<"vosemnadcatq", 18>>, <<"devyatnadcatq", 19>>,
       <<"dvadcatq", 20>>, <<"dvadcatq odin", 21>>, <<"dvadcatq odna", 21>>,
       <<"dvadcatq dva", 22>>, <<"dvadcatq dve", 22>>, <<"dvadcatq tri", 23>> >>

\* number_words.get(w)
NumberWord(w) ==
    LET i == CHOOSE j \in 1..Len(number_words) : number_words[j][1] = w
    IN number_words[i][2]

\* '|'.join(number_words.keys())
NumberWordsKeys == Alt([j \in 1..Len(number_words) |-> Lit(number_words[j][1])])

\* (?:\s+chasa?)?
ChasaOpt == Opt(Cat(<<Plus(S), Lit("chas"), Opt(Lit("a"))>>))

\* (zavtra|segodnya|poslezavtra) as group n
RelWord(n) == Grp(n, Alt(<<Lit("zavtra"), Lit("segodnya"), Lit("poslezavtra")>>))

\* time_of_day_patterns with their time types
time_of_day_patterns ==
    LET HourOrWord == Alt(<<Grp(1, D12), Grp(2, NumberWordsKeys)>>)
    IN << <<Cat(<<BOL, HourOrWord, ChasaOpt, Plus(S),
                  Grp(3, Alt(<<Lit("utra"), Lit("nochi")>>)), WB>>), "morning">>,
          <<Cat(<<BOL, HourOrWord, ChasaOpt, Plus(S), Lit("dnya"), WB>>),
            "afternoon">>,
          <<Cat(<<BOL, HourOrWord, ChasaOpt, Plus(S), Lit("vechera"), WB>>),
            "evening">>,
          <<Cat(<<BOL, HourOrWord, ChasaOpt, Plus(S), Lit("nochi"), WB>>),
            "night">> >>

\* the hour of an "afternoon" ("dnya") expression
AfternoonHour(hour) ==
    IF hour = 0 THEN 12
    ELSE IF hour < 12
         THEN (IF hour + 12 > 17 THEN hour + 12 - 12 ELSE hour + 12)
         ELSE hour

\* faulty variant: the hour is taken as said, whatever the time type
TimeOfDayHourBug(time_type, hour) == hour % 24

\* the hour by time type, then hour % 24
TimeOfDayHour(time_type, hour) ==
    LET h == CASE time_type = "morning" -> IF hour > 11 THEN hour % 12 ELSE hour
               [] time_type = "afternoon" -> AfternoonHour(hour)
               [] time_type = "evening" -> IF hour < 12 THEN hour + 12 ELSE hour
               [] time_type = "night" -> IF hour >= 12 THEN hour % 12 ELSE hour
    IN h % 24

\* if result < now_dt: result += timedelta(days=1)
RollIfPassed(res, now) == IF Before(res, now) THEN AddDays(res, 1) ELSE res

RECURSIVE TimeOfDayRule(_, _, _)
TimeOfDayRule(str, now, j) ==
    IF j > Len(time_of_day_patterns) THEN Pass
    ELSE
      LET m == ReMatch(time_of_day_patterns[j][1], str)
          time_type == time_of_day_patterns[j][2]
      IN IF ~m.ok THEN TimeOfDayRule(str, now, j + 1)
         ELSE
           LET hour == IF HasGroup(m, 1) THEN Int_(Group(m, 1))
                       ELSE NumberWord(Group(m, 2))
           IN RollIfPassed(
                  Replace(now, TimeOfDayHour(time_type, hour), 0, 0, 0), now)

\* days_offset of a relative date word
DaysOffset(date_word) ==
    IF date_word = "zavtra" THEN 1
    ELSE IF date_word = "poslezavtra" THEN 2 ELSE 0

\* faulty variant: the time of day is compared with that of now_dt, whatever
\* the day offset
RelativeAtBug(now, date_word, hour, minute) ==
    LET at == Replace(AddDays(now, DaysOffset(date_word)), hour, minute, 0, 0)
    IN IF Before(Replace(now, hour, minute, 0, 0), now) THEN AddDays(at, 1)
       ELSE at

\* (now_dt + timedelta(days=days_offset)).replace(hour, minute, 0, 0), rolled
\* over to the next day if it is before now_dt
RelativeAt(now, date_word, hour, minute) ==
    RollIfPassed(Replace(AddDays(now, DaysOffset(date_word)), hour, minute, 0, 0),
                 now)

\* (?:\s*[:.]?\s*(\d{2}))? with the minutes as group n
MinutesOpt(n) ==
    Opt(Cat(<<Star(S), Opt(Set({":", "."})), Star(S), Grp(n, D2)>>))

\* (?:[:.](\d{2}))? with the minutes as group n
SepMinutesOpt(n) == Opt(Cat(<<Set({":", "."}), Grp(n, D2)>>))

time_before_date_pattern ==
    Cat(<<BOL, Lit("v"), Plus(S), Grp(1, D12), MinutesOpt(2), Plus(S),
          RelWord(3), EOL>>)

\* faulty variant: the minutes said before the relative date are dropped
TimeBeforeDateRuleBug(str, now) ==
    LET m == ReMatch(time_before_date_pattern, str)
    IN IF ~m.ok THEN Pass
       ELSE
         LET hour == Int_(Group(m, 1))
         IN IF hour <= 23 THEN RelativeAt(now, Group(m, 3), hour, 0) ELSE Pass

TimeBeforeDateRule(str, now) ==
    LET m == ReMatch(time_before_date_pattern, str)
    IN IF ~m.ok THEN Pass
       ELSE
         LET hour == Int_(Group(m, 1))
             minute == IF HasGroup(m, 2) THEN Int_(Group(m, 2)) ELSE 0
         IN IF hour <= 23 /\ minute <= 59
            THEN RelativeAt(now, Group(m, 3), hour, minute)
            ELSE Pass

relative_time_patterns ==
    <<Cat(<<BOL, RelWord(1), Plus(S), Opt(Cat(<<Lit("v"), Plus(S)>>)),
            Alt(<<Grp(2, D12), Grp(3, NumberWordsKeys)>>), ChasaOpt, Plus(S),
            Grp(4, Alt(<<Lit("utra"), Lit("dnya"), Lit("vechera"), Lit("nochi")>>)),
            WB>>)>>

\* faulty variant: an hour below 12 said with "dnya" always gains 12
RelativeTimeHourBug(time_of_day, hour) ==
    LET h == CASE time_of_day = "utra" -> IF hour > 11 THEN hour % 12 ELSE hour
               [] time_of_day = "dnya" ->
                    IF hour = 0 THEN 12
                    ELSE IF hour < 12 THEN hour + 12 ELSE hour
               [] time_of_day = "vechera" -> IF hour < 12 THEN hour + 12 ELSE hour
               [] time_of_day = "nochi" -> IF hour >= 12 THEN hour % 12 ELSE hour
    IN h % 24

\* the hour by time-of-day word in the relative-date rule, then hour % 24
RelativeTimeHour(time_of_day, hour) ==
    LET h == CASE time_of_day = "utra" -> IF hour > 11 THEN hour % 12 ELSE hour
               [] time_of_day = "dnya" ->
                    IF hour = 0 THEN 12
                    ELSE IF hour < 12
                         THEN (IF hour + 12 > 17 THEN hour + 12 - 12 ELSE hour + 12)
                         ELSE hour
               [] time_of_day = "vechera" -> IF hour < 12 THEN hour + 12 ELSE hour
               [] time_of_day = "nochi" -> IF hour >= 12 THEN hour % 12 ELSE hour
    IN h % 24

RelativeTimeRule(str, now) ==
    LET m == ReMatch(relative_time_patterns[1], str)
    IN IF ~m.ok THEN Pass
       ELSE
         LET hour == IF HasGroup(m, 2) THEN Int_(Group(m, 2))
                     ELSE NumberWord(Group(m, 3))
         IN RelativeAt(now, Group(m, 1), RelativeTimeHour(Group(m, 4), hour), 0)

until_time_pattern ==
    Cat(<<BOL, RelWord(1), Plus(S), Lit("do"), Plus(S), Grp(2, D12),
          SepMinutesOpt(3), EOL>>)

UntilTimeRule(str, now) ==
    LET m == ReMatch(until_time_pattern, str)
    IN IF ~m.ok THEN Pass
       ELSE
         LET hour == Int_(Group(m, 2))
             minute == IF HasGroup(m, 3) THEN Int_(Group(m, 3)) ELSE 0
         IN IF hour <= 23 /\ minute <= 59
            THEN RelativeAt(now, Group(m, 1), hour, minute)
            ELSE Pass

\* chasov? : "chaso" and an optional "v"
Chasov == Cat(<<Lit("chaso"), Opt(Lit("v"))>>)

\* (?:minut?|m)?
MinutOpt == Opt(Alt(<<Cat(<<Lit("minu"), Opt(Lit("t"))>>), Lit("m")>>))

\* the first date_time_patterns: relative date with a time
relative_date_time_patterns ==
    <<Cat(<<BOL, RelWord(1), Plus(S), Lit("v"), Plus(S), Grp(2, D12), Plus(S),
            Chasov, Plus(S), Grp(3, D12), Star(S), MinutOpt, EOL>>),
      Cat(<<BOL, RelWord(1), Plus(S), Lit("v"), Plus(S), Grp(2, D12), Plus(S),
            Chasov, EOL>>),
      Cat(<<BOL, RelWord(1), Plus(S), Lit("v"), Plus(S), Grp(2, D12),
            SepMinutesOpt(3), EOL>>),
      Cat(<<BOL, RelWord(1), Plus(S), Grp(2, D12), Plus(S), Grp(3, D2), EOL>>),
      Cat(<<BOL, RelWord(1), Plus(S), Grp(2, D12), SepMinutesOpt(3), EOL>>)>>

RECURSIVE RelativeDateTimeRule(_, _, _)
RelativeDateTimeRule(str, now, j) ==
    IF j > Len(relative_date_time_patterns) THEN Pass
    ELSE
      LET m == ReMatch(relative_date_time_patterns[j], str)
      IN IF ~m.ok THEN RelativeDateTimeRule(str, now, j + 1)
         ELSE
           LET hour == Int_(Group(m, 2))
               minute == IF HasGroup(m, 3) THEN Int_(Group(m, 3)) ELSE 0
           IN IF hour <= 23 /\ minute <= 59
              THEN RelativeAt(now, Group(m, 1), hour, minute)
              ELSE RelativeDateTimeRule(str, now, j + 1)

hour_only_pattern == Cat(<<BOL, Grp(1, D12), EOL>>)

HourOnlyRule(str, now) ==
    LET m == ReMatch(hour_only_pattern, str)
    IN IF m.ok /\ Int_(Group(m, 1)) <= 23
       THEN RollIfPassed(Replace(now, Int_(Group(m, 1)), 0, 0, 0), now)
       ELSE Pass

\* relative_dates: the closed vocabulary and its day offsets
relative_dates ==
    << <<"segodnya", 0>>, <<"segodnyashnij denq", 0>>, <<"zavtra", 1>>,
       <<"poslezavtra", 2>>, <<"cherez denq", 1>>, <<"cherez 2 dnya", 2>>,
       <<"cherez 3 dnya", 3>>, <<"cherez nedelyu", 7>>, <<"cherez 2 nedeli", 14>> >>

\* .replace(hour=23, minute=59, second=59, microsecond=0)
EndOfDay(dt) == Replace(dt, 23, 59, 59, 0)

\* faulty variant: the time of day of now_dt is kept, not set to 23:59:59
RelativeDateRuleBug(str, now) ==
    IF \E j \in 1..Len(relative_dates) : relative_dates[j][1] = str
    THEN LET j == CHOOSE k \in 1..Len(relative_dates) : relative_dates[k][1] = str
         IN AddDays(now, relative_dates[j][2])
    ELSE Pass

RelativeDateRule(str, now) ==
    IF \E j \in 1..Len(relative_dates) : relative_dates[j][1] = str
    THEN LET j == CHOOSE k \in 1..Len(relative_dates) : relative_dates[k][1] = str
         IN EndOfDay(AddDays(now, relative_dates[j][2]))
    ELSE Pass

\* weekdays_map / weekdays: Monday is 0
weekdays ==
    << <<"ponedelqnik", 0>>, <<"vtornik", 1>>, <<"sreda", 2>>, <<"chetverg", 3>>,
       <<"pyatnica", 4>>, <<"subbota", 5>>, <<"voskresenqe", 6>>,
       <<"pn", 0>>, <<"vt", 1>>, <<"sr", 2>>, <<"cht", 3>>, <<"pt", 4>>,
       <<"sb", 5>>, <<"vs", 6>> >>

IsWeekdayName(w) == \E j \in 1..Len(weekdays) : weekdays[j][1] = w

WeekdayOf(w) ==
    LET j == CHOOSE k \in 1..Len(weekdays) : weekdays[k][1] = w
    IN weekdays[j][2]

weekday_time_pattern ==
    Cat(<<BOL, Grp(1, Alt([j \in 1..Len(weekdays) |-> Lit(weekdays[j][1])])),
          Plus(S), Opt(Cat(<<Lit("v"), Plus(S)>>)), Grp(2, D12), MinutesOpt(3),
          EOL>>)

\* faulty variant: on the named weekday the time of today is returned even
\* when it has passed
WeekdayTimeRuleBug(str, now) ==
    LET m == ReMatch(weekday_time_pattern, str)
    IN IF ~m.ok THEN Pass
       ELSE
         LET target_weekday == WeekdayOf(Group(m, 1))
             hour == Int_(Group(m, 2))
             minute == IF HasGroup(m, 3) THEN Int_(Group(m, 3)) ELSE 0
             diff == target_weekday - Weekday(now)
         IN IF ~(hour <= 23 /\ minute <= 59) THEN Pass
            ELSE IF diff < 0
                 THEN Replace(AddDays(now, diff + 7), hour, minute, 0, 0)
            ELSE Replace(AddDays(now, diff), hour, minute, 0, 0)

WeekdayTimeRule(str, now) ==
    LET m == ReMatch(weekday_time_pattern, str)
    IN IF ~m.ok THEN Pass
       ELSE
         LET target_weekday == WeekdayOf(Group(m, 1))
             hour == Int_(Group(m, 2))
             minute == IF HasGroup(m, 3) THEN Int_(Group(m, 3)) ELSE 0
             diff == target_weekday - Weekday(now)
             candidate == Replace(now, hour, minute, 0, 0)
         IN IF ~(hour <= 23 /\ minute <= 59) THEN Pass
            ELSE IF diff < 0
                 THEN Replace(AddDays(now, diff + 7), hour, minute, 0, 0)
            ELSE IF diff = 0
                 THEN (IF Before(candidate, now)
                       THEN Replace(AddDays(now, 7), hour, minute, 0, 0)
                       ELSE candidate)
            ELSE Replace(AddDays(now, diff), hour, minute, 0, 0)

\* faulty variant: `<` for `<=`, so the named weekday can be today
DaysAheadBug(target_weekday, current_weekday) ==
    LET days_ahead == target_weekday - current_weekday
    IN IF days_ahead < 0 THEN days_ahead + 7 ELSE days_ahead

\* days_ahead of the weekday-alone rule
DaysAhead(target_weekday, current_weekday) ==
    LET days_ahead == target_weekday - current_weekday
    IN IF days_ahead <= 0 THEN days_ahead + 7 ELSE days_ahead

WeekdayRule(str, now) ==
    IF IsWeekdayName(str)
    THEN EndOfDay(AddDays(now, DaysAhead(WeekdayOf(str), Weekday(now))))
    ELSE Pass

\* int(s): an optional sign and digits; anything else raises ValueError
IsInt(s) ==
    \/ IsDigits(s)
    \/ Len(s) > 1 /\ CharAt(s, 0) \in {"+", "-"} /\ IsDigits(Slice(s, 1, Len(s)))

IntOf(s) ==
    IF CharAt(s, 0) = "-" THEN 0 - Int_(Slice(s, 1, Len(s)))
    ELSE IF CharAt(s, 0) = "+" THEN Int_(Slice(s, 1, Len(s)))
    ELSE Int_(s)

\* date arithmetic outside year 1..9999 raises OverflowError
MaxOrdinal == 3652059

InRange(dt, days) == Ordinal(dt) + days \in 1..MaxOrdinal

\* "cherez N <unit>": days, weeks, months of 30 days
ThroughRule(str, now) ==
    LET parts == Split(str)
    IN IF ~(StartsWith(str, "cherez") /\ Len(parts) >= 3 /\ IsInt(parts[2]))
       THEN Pass
       ELSE
         LET amount == IntOf(parts[2])
             unit == parts[3]
             isDays == Contains(unit, "denq") \/ Contains(unit, "dnej")
                       \/ Contains(unit, "dnya")
             isWeeks == Contains(unit, "nedel") \/ Contains(unit, "nedelya")
             isMonths == Contains(unit, "mesyac") \/ Contains(unit, "mesyacev")
                         \/ Contains(unit, "mesyaca")
             days == IF isDays THEN amount
                     ELSE IF isWeeks THEN amount * 7 ELSE amount * 30
         IN IF (isDays \/ isWeeks \/ isMonths) /\ InRange(now, days)
            THEN EndOfDay(AddDays(now, days))
            ELSE Pass

time_only_patterns ==
    <<Cat(<<BOL, Lit("v"), Plus(S), Grp(1, D12), Plus(S), Chasov, Plus(S),
            Grp(2, D12), Star(S), MinutOpt, EOL>>),
      Cat(<<BOL, Lit("v"), Plus(S), Grp(1, D12), Plus(S), Chasov, EOL>>),
      Cat(<<BOL, Grp(1, D12), Plus(S), Chasov, Plus(S), Grp(2, D12), Star(S),
            MinutOpt, EOL>>),
      Cat(<<BOL, Grp(1, D12), Plus(S), Chasov, EOL>>),
      Cat(<<BOL, Grp(1, D12), Set({":", "."}), Grp(2, D2), EOL>>),
      Cat(<<BOL, Grp(1, D12), Plus(S), Grp(2, D2), EOL>>)>>

RECURSIVE TimeOnlyRule(_, _, _)
TimeOnlyRule(str, now, j) ==
    IF j > Len(time_only_patterns) THEN Pass
    ELSE
      LET m == ReMatch(time_only_patterns[j], str)
      IN IF ~m.ok THEN TimeOnlyRule(str, now, j + 1)
         ELSE
           LET hour == Int_(Group(m, 1))
               minute == IF HasGroup(m, 2) THEN Int_(Group(m, 2)) ELSE 0
           IN IF hour <= 23 /\ minute <= 59
              THEN RollIfPassed(Replace(now, hour, minute, 0, 0), now)
              ELSE TimeOnlyRule(str, now, j + 1)

\* the second date_time_patterns: a full date and a time
date_time_patterns ==
    <<Cat(<<BOL, Grp(1, D12), Lit("."), Grp(2, D12), Lit("."), Grp(3, D4),
            Plus(S), Grp(4, D12), Set({":", "."}), Grp(5, D2), EOL>>),
      Cat(<<BOL, Grp(1, D12), Lit("/"), Grp(2, D12), Lit("/"), Grp(3, D4),
            Plus(S), Grp(4, D12), Set({":", "."}), Grp(5, D2), EOL>>),
      Cat(<<BOL, Grp(1, D4), Lit("-"), Grp(2, D12), Lit("-"), Grp(3, D12),
            Plus(S), Grp(4, D12), Set({":", "."}), Grp(5, D2), EOL>>),
      Cat(<<BOL, Grp(1, D12), Lit("-"), Grp(2, D12), Lit("-"), Grp(3, D4),
            Plus(S), Grp(4, D12), Set({":", "."}), Grp(5, D2), EOL>>)>>

\* the order of year, month, day in the groups of a date pattern
YearFirst(str, m) == Contains(str, "-") /\ Len(Group(m, 1)) = 4

RECURSIVE DateTimeRule(_, _, _)
DateTimeRule(str, now, j) ==
    IF j > Len(date_time_patterns) THEN Pass
    ELSE
      LET m == ReMatch(date_time_patterns[j], str)
      IN IF ~m.ok THEN DateTimeRule(str, now, j + 1)
         ELSE
           LET year == Int_(Group(m, IF YearFirst(str, m) THEN 1 ELSE 3))
               month == Int_(Group(m, 2))
               day == Int_(Group(m, IF YearFirst(str, m) THEN 3 ELSE 1))
               hour == Int_(Group(m, 4))
               minute == Int_(Group(m, 5))
           IN IF /\ month \in 1..12 /\ day \in 1..31 /\ hour <= 23 /\ minute <= 59
                 /\ ValidDate(year, month, day)
              THEN DateTime(year, month, day, hour, minute, 0)
              ELSE DateTimeRule(str, now, j + 1)

\* months_ru
months_ru ==
    << <<"yanvarya", 1>>, <<"fevralya", 2>>, <<"marta", 3>>, <<"aprelya", 4>>,
       <<"maya", 5>>, <<"iyunya", 6>>, <<"iyulya", 7>>, <<"avgusta", 8>>,
       <<"sentyabrya", 9>>, <<"oktyabrya", 10>>, <<"noyabrya", 11>>,
       <<"dekabrya", 12>>,
       <<"yanvarq", 1>>, <<"fevralq", 2>>, <<"mart", 3>>, <<"aprelq", 4>>,
       <<"maj", 5>>, <<"iyunq", 6>>, <<"iyulq", 7>>, <<"avgust", 8>>,
       <<"sentyabrq", 9>>, <<"oktyabrq", 10>>, <<"noyabrq", 11>>,
       <<"dekabrq", 12>> >>

MonthOf(w) ==
    LET j == CHOOSE k \in 1..Len(months_ru) : months_ru[k][1] = w
    IN months_ru[j][2]

\* [soft sign or ya]
QYa == Alt(<<Lit("q"), Lit("ya")>>)

\* (yanvar[q,ya]|fevral[q,ya]|mart[a]?|...|dekabr[q,ya])
MonthName ==
    Alt(<<Cat(<<Lit("yanvar"), QYa>>), Cat(<<Lit("fevral"), QYa>>),
          Cat(<<Lit("mart"), Opt(Lit("a"))>>), Cat(<<Lit("aprel"), QYa>>),
          Cat(<<Lit("ma"), Alt(<<Lit("j"), Lit("ya")>>)>>),
          Cat(<<Lit("iyun"), QYa>>), Cat(<<Lit("iyul"), QYa>>),
          Cat(<<Lit("avgust"), Opt(Lit("a"))>>), Cat(<<Lit("sentyabr"), QYa>>),
          Cat(<<Lit("oktyabr"), QYa>>), Cat(<<Lit("noyabr"), QYa>>),
          Cat(<<Lit("dekabr"), QYa>>)>>)

date_month_patterns ==
    <<Cat(<<BOL, Grp(1, D12), Plus(S), Grp(2, MonthName),
            Opt(Cat(<<Plus(S), Grp(3, D4)>>)),
            Opt(Cat(<<Plus(S), Lit("v"), Plus(S), Grp(4, D12), MinutesOpt(5)>>)),
            EOL>>)>>

\* datetime(year, month, day) < now_dt.replace(hour=0, minute=0, second=0)
PassedThisYear(year, month, day, now) ==
    Before(DateTime(year, month, day, 0, 0, 0),
           [now EXCEPT !.hour = 0, !.minute = 0, !.second = 0])

DateMonthRule(str, now) ==
    LET m == ReMatch(date_month_patterns[1], str)
    IN IF ~m.ok THEN Pass
       ELSE
         LET day == Int_(Group(m, 1))
             month == MonthOf(Group(m, 2))
             given == HasGroup(m, 3)
             year0 == IF given THEN Int_(Group(m, 3)) ELSE now.year
         IN IF ~ValidDate(year0, month, day) THEN Pass
            ELSE
              LET year == IF ~given /\ PassedThisYear(year0, month, day, now)
                          THEN year0 + 1 ELSE year0
                  hour == IF HasGroup(m, 4) THEN Int_(Group(m, 4)) ELSE 0
                  minute == IF HasGroup(m, 5) THEN Int_(Group(m, 5)) ELSE 0
              IN IF ~ValidDate(year, month, day) THEN Pass
                 ELSE IF HasGroup(m, 4) /\ hour <= 23 /\ minute <= 59
                      THEN DateTime(year, month, day, hour, minute, 0)
                      ELSE DateTime(year, month, day, 23, 59, 59)

date_only_patterns ==
    <<Cat(<<BOL, Grp(1, D12), Lit("."), Grp(2, D12), Lit("."), Grp(3, D4), EOL>>),
      Cat(<<BOL, Grp(1, D12), Lit("/"), Grp(2, D12), Lit("/"), Grp(3, D4), EOL>>),
      Cat(<<BOL, Grp(1, D4), Lit("-"), Grp(2, D12), Lit("-"), Grp(3, D12), EOL>>),
      Cat(<<BOL, Grp(1, D12), Lit("-"), Grp(2, D12), Lit("-"), Grp(3, D4), EOL>>),
      Cat(<<BOL, Grp(1, D12), Lit("."), Grp(2, D12), EOL>>),
      Cat(<<BOL, Grp(1, D12), Lit("/"), Grp(2, D12), EOL>>)>>

RECURSIVE DateOnlyRule(_, _, _)
DateOnlyRule(str, now, j) ==
    IF j > Len(date_only_patterns) THEN Pass
    ELSE
      LET m == ReMatch(date_only_patterns[j], str)
      IN IF ~m.ok THEN DateOnlyRule(str, now, j + 1)
         ELSE
           LET full == j <= 4
               month == Int_(Group(m, 2))
               day == Int_(Group(m, IF full /\ YearFirst(str, m) THEN 3 ELSE 1))
               year0 == IF full
                        THEN Int_(Group(m, IF YearFirst(str, m) THEN 1 ELSE 3))
                        ELSE now.year
           IN IF ~ValidDate(year0, month, day)
              THEN DateOnlyRule(str, now, j + 1)
              ELSE
                LET year == IF ~full /\ PassedThisYear(year0, month, day, now)
                            THEN year0 + 1 ELSE year0
                IN IF ValidDate(year, month, day)
                   THEN DateTime(year, month, day, 23, 59, 59)
                   ELSE DateOnlyRule(str, now, j + 1)

\* deadline_str.strip().lower(), no spaces around ":" and ".", single spaces
NormalizeDeadlineStr(deadline_str) ==
    ReSub(Plus(S), <<TS(" ")>>,
          ReSub(Cat(<<Star(S), Grp(1, Set({":", "."})), Star(S)>>), <<TG(1)>>,
                Lower(Strip(deadline_str))))

\* the rules of parse_deadline in the order of the source, each with what
\* it returns for str, or Pass
Rules(str, now) ==
    << TimeOfDayRule(str, now, 1),
       TimeBeforeDateRule(str, now),
       RelativeTimeRule(str, now),
       UntilTimeRule(str, now),
       RelativeDateTimeRule(str, now, 1),
       HourOnlyRule(str, now),
       RelativeDateRule(str, now),
       WeekdayTimeRule(str, now),
       WeekdayRule(str, now),
       ThroughRule(str, now),
       TimeOnlyRule(str, now, 1),
       DateTimeRule(str, now, 1),
       DateMonthRule(str, now),
       DateOnlyRule(str, now, 1) >>

\* the rules that return, by their place in the list
ReturningRules(results) == {k \in 1..Len(results) : results[k] # Pass}

\* what the first rule that returns gives; the final return None otherwise
FirstRule(results, returning) ==
    IF returning = {} THEN None ELSE results[FirstOf(returning)]

FirstReturn(results) == FirstRule(results, ReturningRules(results))

\* parse_deadline(deadline_str) when now() returns now
parse_deadline(deadline_str, now) ==
    FirstReturn(Rules(NormalizeDeadlineStr(deadline_str), now))

(***************************************************************************)
(* extract_deadline_from_text                                              *)
(***************************************************************************)
\* number_words_list: the longer phrases first
number_words_list ==
    <<"dvadcatq tri", "dvadcatq dve", "dvadcatq dva", "dvadcatq odna",
      "dvadcatq odin", "dvadcatq", "devyatnadcatq", "vosemnadcatq", "semnadcatq",
      "shestnadcatq", "pyatnadcatq", "chetyrnadcatq", "trinadcatq", "dvenadcatq",
      "odinnadcatq", "desyatq", "devyatq", "vosemq", "semq", "shestq", "pyatq",
      "chetyre", "tri", "dve", "dva", "odnu", "odna", "odin">>

RECURSIVE Join(_, _, _)
Join(sep, a, j) ==
    IF j > Len(a) THEN ""
    ELSE IF j = Len(a) THEN a[j] ELSE a[j] \o sep \o Join(sep, a, j + 1)

\* '|'.join(number_words_list), as text and as an alternation
number_words_pattern == Join("|", number_words_list, 1)
NumberWordsList == Alt([j \in 1..Len(number_words_list) |-> Lit(number_words_list[j])])

\* the month alternation as it is written in the patterns
MonthSrc ==
    "yanvar[qya]|fevral[qya]|mart[a]?|aprel[qya]|ma[jya]|iyun[qya]|iyul[qya]|"
    \o "avgust[a]?|sentyabr[qya]|oktyabr[qya]|noyabr[qya]|dekabr[qya]"

TimeOfDayWord(n) ==
    Grp(n, Alt(<<Lit("utra"), Lit("dnya"), Lit("vechera"), Lit("nochi")>>))

VOpt == Opt(Cat(<<Lit("v"), Plus(S)>>))

Pattern(re, priority, src) == [re |-> re, priority |-> priority, src |-> src]

\* deadline_patterns: (regex, priority), with the text of the regex
deadline_patterns ==
  <<Pattern(Cat(<<WB, Lit("v"), Plus(S), Grp(1, D12), MinutesOpt(2), Plus(S),
                  RelWord(3), WB>>), 13,
      "\\bv\\s+(\\d{1,2})(?:\\s*[:.]?\\s*(\\d{2}))?\\s+(zavtra|segodnya|poslezavtra)\\b"),
    Pattern(Cat(<<WB, RelWord(1), Plus(S), VOpt,
                  Alt(<<Grp(2, D12), Grp(3, NumberWordsList)>>), ChasaOpt, Plus(S),
                  TimeOfDayWord(4), WB>>), 12,
      "\\b(zavtra|segodnya|poslezavtra)\\s+(?:v\\s+)?(?:(\\d{1,2})|("
      \o number_words_pattern
      \o "))(?:\\s+chasa?)?\\s+(utra|dnya|vechera|nochi)\\b"),
    Pattern(Cat(<<WB, Alt(<<Grp(1, D12), Grp(2, NumberWordsList)>>), ChasaOpt,
                  Plus(S), TimeOfDayWord(3), WB>>), 11,
      "\\b(?:(\\d{1,2})|(" \o number_words_pattern
      \o "))(?:\\s+chasa?)?\\s+(utra|dnya|vechera|nochi)\\b"),
    Pattern(Cat(<<WB, RelWord(1), Plus(S), Lit("v"), Plus(S), Grp(2, D12),
                  MinutesOpt(3), WB>>), 10,
      "\\b(zavtra|segodnya|poslezavtra)\\s+v\\s+(\\d{1,2})(?:\\s*[:.]?\\s*(\\d{2}))?\\b"),
    Pattern(Cat(<<WB, Grp(1, Alt([j \in 1..Len(weekdays) |-> Lit(weekdays[j][1])])),
                  Plus(S), VOpt, Grp(2, D12), MinutesOpt(3), WB>>), 10,
      "\\b(ponedelqnik|vtornik|sreda|chetverg|pyatnica|subbota|voskresenqe|"
      \o "pn|vt|sr|cht|pt|sb|vs)\\s+(?:v\\s+)?(\\d{1,2})(?:\\s*[:.]?\\s*(\\d{2}))?\\b"),
    Pattern(Cat(<<WB, Grp(1, D12), Plus(S), Grp(2, MonthName),
                  Opt(Cat(<<Plus(S), Grp(3, D4)>>)), Plus(S), Lit("v"), Plus(S),
                  Grp(4, D12), MinutesOpt(5), WB>>), 10,
      "\\b(\\d{1,2})\\s+(" \o MonthSrc
      \o ")(?:\\s+(\\d{4}))?\\s+v\\s+(\\d{1,2})(?:\\s*[:.]?\\s*(\\d{2}))?\\b"),
    Pattern(Cat(<<WB, Grp(1, D12), Lit("."), Grp(2, D12), Lit("."), Grp(3, D4),
                  Opt(Cat(<<Plus(S), VOpt, Grp(4, D12), Set({":", "."}),
                            Grp(5, D2)>>)), WB>>), 9,
      "\\b(\\d{1,2})\\.(\\d{1,2})\\.(\\d{4})(?:\\s+(?:v\\s+)?(\\d{1,2})[:.](\\d{2}))?\\b"),
    Pattern(Cat(<<WB, Grp(1, D12), Lit("/"), Grp(2, D12), Lit("/"), Grp(3, D4),
                  Opt(Cat(<<Plus(S), VOpt, Grp(4, D12), Set({":", "."}),
                            Grp(5, D2)>>)), WB>>), 9,
      "\\b(\\d{1,2})/(\\d{1,2})/(\\d{4})(?:\\s+(?:v\\s+)?(\\d{1,2})[:.](\\d{2}))?\\b"),
    Pattern(Cat(<<WB, RelWord(1), Plus(S), Grp(2, D12), MinutesOpt(3), WB>>), 8,
      "\\b(zavtra|segodnya|poslezavtra)\\s+(\\d{1,2})(?:\\s*[:.]?\\s*(\\d{2}))?\\b"),
    Pattern(Cat(<<WB, Grp(1, D12), Plus(S), Grp(2, MonthName),
                  Opt(Cat(<<Plus(S), Grp(3, D4)>>)), WB>>), 7,
      "\\b(\\d{1,2})\\s+(" \o MonthSrc \o ")(?:\\s+(\\d{4}))?\\b"),
    Pattern(Cat(<<WB, Lit("cherez"), Plus(S), Grp(1, Plus(D)), Plus(S),
                  Grp(2, Alt(<<Cat(<<Lit("nedel"),
                                     Opt(Alt(<<Lit("i"), Lit("ya"), Lit("yu")>>))>>),
                               Cat(<<Lit("dn"),
                                     Alt(<<Lit("ya"), Lit("e"), Lit("j")>>)>>),
                               Cat(<<Lit("mesyac"),
                                     Opt(Set({"a", "e", "v"}))>>)>>)), WB>>), 6,
      "\\bcherez\\s+(\\d+)\\s+(nedel[iyayu]?|dn[yaej]|mesyac[aev]?)\\b"),
    Pattern(Cat(<<WB, Lit("cherez"), Plus(S), Lit("nedel"),
                  Alt(<<Lit("yu"), Lit("ya")>>), WB>>), 5,
      "\\bcherez\\s+nedel[yuya]\\b"),
    Pattern(Cat(<<Alt(<<Cat(<<D12, Plus(S), MonthName>>), Lit("zavtra"),
                        Lit("segodnya"), Lit("poslezavtra"),
                        Cat(<<D12, Set({".", "/"}), D12>>)>>),
                  Plus(S), Lit("v"), Plus(S), Grp(1, D12), MinutesOpt(2), WB>>), 4,
      "(?:\\d{1,2}\\s+(?:" \o MonthSrc
      \o ")|zavtra|segodnya|poslezavtra|\\d{1,2}[./]\\d{1,2})"
      \o "\\s+v\\s+(\\d{1,2})(?:\\s*[:.]?\\s*(\\d{2}))?\\b"),
    Pattern(Cat(<<WB, Grp(1, Alt(<<Lit("segodnya"), Lit("zavtra"),
                                   Lit("poslezavtra")>>)), WB>>), 3,
      "\\b(segodnya|zavtra|poslezavtra)\\b"),
    Pattern(Cat(<<WB, Grp(1, Cat(<<Opt(Set({"0", "1", "2"})), D>>)),
                  Set({":", "."}), Grp(2, D2), Star(S), EOL>>), 2,
      "\\b([0-2]?[0-9])[:.](\\d{2})\\s*$")>>

\* faulty variant: the list is kept in ascending priority
RECURSIVE InsertByPriorityBug(_, _)
InsertByPriorityBug(p, a) ==
    IF Len(a) = 0 THEN <<p>>
    ELSE IF Head(a).priority <= p.priority
         THEN <<Head(a)>> \o InsertByPriorityBug(p, Tail(a))
         ELSE <<p>> \o a

\* insert p into a list sorted by descending priority, after its equals
RECURSIVE InsertByPriority(_, _)
InsertByPriority(p, a) ==
    IF Len(a) = 0 THEN <<p>>
    ELSE IF Head(a).priority >= p.priority
         THEN <<Head(a)>> \o InsertByPriority(p, Tail(a))
         ELSE <<p>> \o a

\* list.sort(key=priority, reverse=True): stable
RECURSIVE SortByPriority(_, _)
SortByPriority(a, n) ==
    IF n = 0 THEN <<>>
    ELSE InsertByPriority(a[n], SortByPriority(a, n - 1))

SortedPatterns == SortByPriority(deadline_patterns, Len(deadline_patterns))

\* a date before "v": a relative date, a day and month name, or a numeric date
HasDateBefore(before_match) ==
    \/ ReSearch(Cat(<<WB, RelWord(1), Star(S), EOL>>), before_match).ok
    \/ ReSearch(Cat(<<D12, Plus(S), MonthName, Star(S), EOL>>), before_match).ok
    \/ ReSearch(Cat(<<D12, Set({".", "/"}), D12,
                      Opt(Cat(<<Set({".", "/"}), D4>>)), Star(S), EOL>>),
                before_match).ok

\* the context check of the patterns written with "(?:^|\s)v\s+": the match
\* is dropped before a unit or time-of-day word, and without a date before
\* it unless it ends the text
ContextSkips(p, m, text_lower) ==
    /\ Contains(p.src, "(?:^|\\s)v\\s+")
    /\ ~Contains(p.src, "\\d{1,2}\\s+(?:yanvar")
    /\ \/ ReSearch(Cat(<<WB, Grp(1, Alt(<<Chasov, Lit("minut"), Lit("utra"),
                                          Lit("vechera"), Lit("dnya"),
                                          Lit("nochi")>>)), WB>>),
                   Slice(text_lower, m.e, Len(text_lower))).ok
       \/ /\ ~HasDateBefore(Slice(text_lower, 0, m.b))
          /\ m.e < Len(text_lower)

\* faulty variant: only "v" and a digit after the relative date skip it
RelativeSkipsBug(p, m, text_lower) ==
    /\ p.src = "\\b(segodnya|zavtra|poslezavtra)\\b"
    /\ ReMatch(Cat(<<BOL, Star(S), Lit("v"), Plus(S), D>>),
               Strip(Slice(text_lower, m.e, Len(text_lower)))).ok

\* a relative date alone is skipped when a time follows it
RelativeSkips(p, m, text_lower) ==
    /\ p.src = "\\b(segodnya|zavtra|poslezavtra)\\b"
    /\ ReMatch(Cat(<<BOL, Star(S), Opt(Grp(1, Cat(<<Lit("v"), Plus(S)>>))), D>>),
               Strip(Slice(text_lower, m.e, Len(text_lower)))).ok

\* the time patterns tried on the text after a match without a time
time_patterns ==
    <<Cat(<<BOL, Plus(S), Lit("v"), Plus(S), Grp(1, D12), MinutesOpt(2), WB>>),
      Cat(<<BOL, Plus(S), Grp(1, D12),
            Cat(<<Star(S), Set({":", "."}), Star(S), Grp(2, D2)>>), WB>>),
      Cat(<<BOL, Plus(S), Grp(1, D12), Plus(S), Grp(2, D2), WB>>),
      Cat(<<BOL, Plus(S), VOpt, Alt(<<Grp(1, D12), Grp(2, NumberWordsList)>>),
            ChasaOpt, Plus(S), TimeOfDayWord(3), WB>>),
      Cat(<<BOL, Plus(S), Grp(1, D12), Plus(S),
            Alt(<<Chasov, Lit("ch"), Lit("chasa")>>), Star(S),
            Opt(Cat(<<Grp(2, D12), Star(S),
                      Alt(<<Cat(<<Lit("minu"), Opt(Lit("t"))>>), Lit("m"),
                            Lit("minuty")>>)>>)), WB>>),
      Cat(<<BOL, Plus(S), Grp(1, D12), Plus(S), Alt(<<Chasov, Lit("ch")>>),
            Star(S), Opt(Grp(2, D12)), WB>>)>>

\* "14 00" -> "14:00", "14 chasov 30" -> "14:30", "14 chasov" -> "14:00"
NormalizeTimeText(time_text) ==
    ReSub(Cat(<<Grp(1, D12), Plus(S), Chasov, WB>>), <<TG(1), TS(":00")>>,
      ReSub(Cat(<<Grp(1, D12), Plus(S), Chasov, Plus(S), Grp(2, D12), WB>>),
            <<TG(1), TS(":"), TG(2)>>,
        ReSub(Cat(<<Grp(1, D12), Plus(S), Grp(2, D2), WB>>),
              <<TG(1), TS(":"), TG(2)>>, time_text)))

HasTimeOfDay(str) == ReSearch(Cat(<<WB, TimeOfDayWord(1), WB>>), str).ok

\* found_text joined with the normalized time that follows it
JoinTime(found_text, normalized_time) ==
    IF ~StartsWith(normalized_time, "v") /\ ~HasTimeOfDay(normalized_time)
    THEN found_text \o " v " \o normalized_time
    ELSE found_text \o " " \o normalized_time

\* the first time pattern from j on that matches after the date
RECURSIVE TimeAfter(_, _)
TimeAfterOr(tm, after, j) == IF tm.ok THEN tm ELSE TimeAfter(after, j + 1)
TimeAfter(after, j) ==
    IF j > Len(time_patterns) THEN NoMatch
    ELSE TimeAfterOr(ReMatch(time_patterns[j], after), after, j)

\* extended_text and extended_end once the text after the match is probed
ExtendWith(tm, found_text, m) ==
    IF tm.ok
    THEN [text |-> JoinTime(found_text, NormalizeTimeText(Strip(Group(tm, 0)))),
          end |-> m.e + tm.e]
    ELSE [text |-> found_text, end |-> m.e]

\* extended_text and extended_end of a match
Extended(found_text, m, text_lower) ==
    IF /\ ~HasTimeOfDay(found_text)
       /\ ~Contains(found_text, "v")
       /\ ~ReSearch(Cat(<<D12, Set({":", "."}), D2>>), found_text).ok
    THEN ExtendWith(TimeAfter(Slice(text_lower, m.e, Len(text_lower)), 1),
                    found_text, m)
    ELSE [text |-> found_text, end |-> m.e]

\* faulty variant: the span of the deadline is left in the text
CleanedBug(txt, start_pos, end_pos) ==
    Strip(ReSub(Plus(S), <<TS(" ")>>, Strip(txt)))

\* the text without text[start_pos:end_pos], spaces collapsed
Cleaned(txt, start_pos, end_pos) ==
    Strip(ReSub(Plus(S), <<TS(" ")>>,
                Strip(Strip(Slice(txt, 0, start_pos)) \o " "
                      \o Strip(Slice(txt, end_pos, Len(txt))))))

\* the body of the loop for one pattern: skipped, or the span and its deadline
Skipped == [skip |-> TRUE]

Parsed(m, ext, now) ==
    [skip |-> FALSE, start |-> m.b, end |-> ext.end, text |-> ext.text,
     dt |-> parse_deadline(Strip(ext.text), now)]

AttemptMatch(p, m, text_lower, now) ==
    IF ~m.ok THEN Skipped
    ELSE IF ContextSkips(p, m, text_lower) THEN Skipped
    ELSE IF RelativeSkips(p, m, text_lower) THEN Skipped
    ELSE Parsed(m, Extended(Strip(Group(m, 0)), m, text_lower), now)

Attempt(p, text_lower, now) ==
    AttemptMatch(p, ReSearch(p.re, text_lower), text_lower, now)

\* faulty variant: no rejection of an empty remaining text
ReturnCleanedBug(txt, cleaned_text, dt) == <<cleaned_text, dt>>

\* the return once a deadline is found: the original text without a
\* deadline if nothing is left of it
ReturnCleaned(txt, cleaned_text, dt) ==
    IF cleaned_text = "" THEN <<txt, None>> ELSE <<cleaned_text, dt>>

\* faulty variant: text_lower is returned for the text as it came
ReturnNotFoundBug(txt) == <<Lower(Strip(txt)), None>>

\* the return when no pattern gave a deadline: the text as it came
ReturnNotFound(txt) == <<txt, None>>

\* the attempt was not skipped and its text parsed as a deadline
Resolved(a) == ~a.skip /\ a.dt # None

\* the body of the loop for every pattern of the sorted list
Attempts(txt, now) ==
    [j \in 1..Len(SortedPatterns) |->
        Attempt(SortedPatterns[j], Lower(Strip(txt)), now)]

\* the patterns, by their place in the sorted list, whose attempt resolves
ResolvingPatterns(attempts) == {j \in DOMAIN attempts : Resolved(attempts[j])}

\* the attempt of the first resolving pattern, if there is one
FirstResolved(attempts, resolving) ==
    IF resolving = {} THEN Skipped ELSE attempts[FirstOf(resolving)]

\* the attempt that ends the loop
Winner(attempts) == FirstResolved(attempts, ResolvingPatterns(attempts))

ReturnWinner(a, txt) ==
    IF a.skip THEN ReturnNotFound(txt)
    ELSE ReturnCleaned(txt, Cleaned(txt, a.start, a.end), a.dt)

\* extract_deadline_from_text(text) when now() returns now
extract_deadline_from_text(txt, now) ==
    ReturnWinner(Winner(Attempts(txt, now)), txt)

(***************************************************************************)
(* parse_reminder                                                          *)
(***************************************************************************)
\* relative_reminders: the text and its timedelta, in minutes
relative_reminders ==
    << <<"za 15 minut", 15>>, <<"cherez 15 minut", 15>>,
       <<"za polchasa", 30>>, <<"cherez polchasa", 30>>,
       <<"za 30 minut", 30>>, <<"cherez 30 minut", 30>>,
       <<"za chas", 60>>, <<"cherez chas", 60>>,
       <<"za 2 chasa", 120>>, <<"cherez 2 chasa", 120>>,
       <<"za 3 chasa", 180>>, <<"cherez 3 chasa", 180>>,
       <<"za denq", 1440>>, <<"cherez denq", 1440>>,
       <<"za nedelyu", 10080>>, <<"cherez nedelyu", 10080>> >>

IsRelativeReminder(str) ==
    \E j \in 1..Len(relative_reminders) : relative_reminders[j][1] = str

\* relative_reminders[str], in minutes
RelativeDelta(str) ==
    relative_reminders[CHOOSE j \in 1..Len(relative_reminders) :
                           relative_reminders[j][1] = str][2]

\* use_deadline
UseDeadline(str, dl) == dl # None /\ StartsWith(str, "za")

\* base_time
BaseTime(str, now, dl) == IF UseDeadline(str, dl) THEN dl ELSE now

\* faulty variant: the delta is always added
ShiftedBug(base_time, minutes, use_deadline) == AddMinutes(base_time, minutes)

\* base_time - delta before a deadline, base_time + delta otherwise
Shifted(base_time, minutes, use_deadline) ==
    IF use_deadline THEN AddMinutes(base_time, 0 - minutes)
    ELSE AddMinutes(base_time, minutes)

\* a reminder in the past is moved to one minute from now
NotInPast(res, now) == IF Before(res, now) THEN AddMinutes(now, 1) ELSE res

RelativeReminderRule(str, now, dl) ==
    IF IsRelativeReminder(str)
    THEN NotInPast(Shifted(BaseTime(str, now, dl), RelativeDelta(str),
                           UseDeadline(str, dl)), now)
    ELSE Pass

\* the minutes of one unit; 0 for a unit that is not known
UnitMinutes(unit) ==
    IF Contains(unit, "minut") \/ Contains(unit, "minuty")
       \/ Contains(unit, "minutu")
    THEN 1
    ELSE IF Contains(unit, "chas") \/ Contains(unit, "chasov")
            \/ Contains(unit, "chasa")
    THEN 60
    ELSE IF Contains(unit, "denq") \/ Contains(unit, "dnej")
            \/ Contains(unit, "dnya")
    THEN 1440
    ELSE IF Contains(unit, "nedel") \/ Contains(unit, "nedelya")
            \/ Contains(unit, "nedeli")
    THEN 10080
    ELSE 0

\* timedelta holds at most 999999999 days
MaxDeltaDays == 999999999

\* base_time +/- delta stays within the years 1..9999
ShiftInRange(base_time, minutes, use_deadline) ==
    /\ minutes \div 1440 <= MaxDeltaDays
    /\ minutes \div 1440 >= 0 - MaxDeltaDays
    /\ Ordinal(base_time)
         + ((SecondOfDay(base_time)
             + (IF use_deadline THEN 0 - minutes ELSE minutes) * 60) \div 86400)
       \in 1..MaxOrdinal

GenericAmount(amount, unit, str, now, dl) ==
    IF UnitMinutes(unit) = 0 THEN None
    ELSE IF ShiftInRange(BaseTime(str, now, dl), amount * UnitMinutes(unit),
                         UseDeadline(str, dl))
    THEN NotInPast(Shifted(BaseTime(str, now, dl), amount * UnitMinutes(unit),
                           UseDeadline(str, dl)), now)
    ELSE Pass

GenericParts(parts, str, now, dl) ==
    IF Len(parts) >= 3 /\ IsInt(parts[2])
    THEN GenericAmount(IntOf(parts[2]), parts[3], str, now, dl)
    ELSE Pass

\* "cherez N <unit>", "za N <unit>"
GenericReminderRule(str, now, dl) ==
    IF StartsWith(str, "cherez") \/ StartsWith(str, "za")
    THEN GenericParts(Split(str), str, now, dl)
    ELSE Pass

\* time_patterns of parse_reminder
reminder_time_patterns ==
    <<Cat(<<BOL, Grp(1, D12), Set({":", "."}), Grp(2, D2), EOL>>),
      Cat(<<BOL, Grp(1, D12), Plus(S), Grp(2, D2), EOL>>)>>

TodayOrTomorrow(res, now) == IF Before(res, now) THEN AddDays(res, 1) ELSE res

RECURSIVE ReminderTimeRule(_, _, _)
ReminderTimeMatch(m, str, now, j) ==
    IF m.ok /\ Int_(Group(m, 1)) <= 23 /\ Int_(Group(m, 2)) <= 59
    THEN TodayOrTomorrow(Replace(now, Int_(Group(m, 1)), Int_(Group(m, 2)), 0, 0),
                         now)
    ELSE ReminderTimeRule(str, now, j + 1)
ReminderTimeRule(str, now, j) ==
    IF j > Len(reminder_time_patterns) THEN Pass
    ELSE ReminderTimeMatch(ReMatch(reminder_time_patterns[j], str), str, now, j)

\* date_time_patterns of parse_reminder
reminder_date_time_patterns ==
    <<Cat(<<BOL, Grp(1, D12), Lit("."), Grp(2, D12), Lit("."), Grp(3, D4),
            Plus(S), Grp(4, D12), Set({":", "."}), Grp(5, D2), EOL>>),
      Cat(<<BOL, Grp(1, D12), Lit("/"), Grp(2, D12), Lit("/"), Grp(3, D4),
            Plus(S), Grp(4, D12), Set({":", "."}), Grp(5, D2), EOL>>),
      Cat(<<BOL, Grp(1, D4), Lit("-"), Grp(2, D12), Lit("-"), Grp(3, D12),
            Plus(S), Grp(4, D12), Set({":", "."}), Grp(5, D2), EOL>>),
      Cat(<<BOL, Grp(1, D12), Lit("-"), Grp(2, D12), Lit("-"), Grp(3, D4),
            Plus(S), Grp(4, D12), Set({":", "."}), Grp(5, D2), EOL>>)>>

\* the year and the day of a match, by the order of its groups
YearOf(str, m) == Int_(Group(m, IF YearFirst(str, m) THEN 1 ELSE 3))
DayOf(str, m) == Int_(Group(m, IF YearFirst(str, m) THEN 3 ELSE 1))

RECURSIVE ReminderDateTimeRule(_, _)
ReminderDateTimeMatch(m, str, j) ==
    IF /\ m.ok
       /\ Int_(Group(m, 2)) \in 1..12 /\ DayOf(str, m) \in 1..31
       /\ Int_(Group(m, 4)) <= 23 /\ Int_(Group(m, 5)) <= 59
       /\ ValidDate(YearOf(str, m), Int_(Group(m, 2)), DayOf(str, m))
    THEN DateTime(YearOf(str, m), Int_(Group(m, 2)), DayOf(str, m),
                  Int_(Group(m, 4)), Int_(Group(m, 5)), 0)
    ELSE ReminderDateTimeRule(str, j + 1)
ReminderDateTimeRule(str, j) ==
    IF j > Len(reminder_date_time_patterns) THEN Pass
    ELSE ReminderDateTimeMatch(ReMatch(reminder_date_time_patterns[j], str),
                               str, j)

\* date_patterns of parse_reminder
reminder_date_patterns ==
    <<Cat(<<BOL, Grp(1, D12), Lit("."), Grp(2, D12), Lit("."), Grp(3, D4), EOL>>),
      Cat(<<BOL, Grp(1, D12), Lit("/"), Grp(2, D12), Lit("/"), Grp(3, D4), EOL>>),
      Cat(<<BOL, Grp(1, D4), Lit("-"), Grp(2, D12), Lit("-"), Grp(3, D12), EOL>>),
      Cat(<<BOL, Grp(1, D12), Lit("-"), Grp(2, D12), Lit("-"), Grp(3, D4), EOL>>),
      Cat(<<BOL, Grp(1, D12), Lit("."), Grp(2, D12), EOL>>),
      Cat(<<BOL, Grp(1, D12), Lit("/"), Grp(2, D12), EOL>>)>>

\* the year of a day and month without a year: this year, or the next one
\* once the date has passed; 0 when datetime(year, month, day) raises
InferredYear(month, day, now) ==
    IF ~ValidDate(now.year, month, day) THEN 0
    ELSE IF PassedThisYear(now.year, month, day, now) THEN now.year + 1
    ELSE now.year

\* the reminder of a date alone is at 9:00
ReminderDate(year, month, day) ==
    IF month \in 1..12 /\ day \in 1..31 /\ ValidDate(year, month, day)
    THEN DateTime(year, month, day, 9, 0, 0)
    ELSE Pass

RECURSIVE ReminderDateRule(_, _, _)
ReminderDateOr(r, str, now, j) ==
    IF r # Pass THEN r ELSE ReminderDateRule(str, now, j + 1)
ReminderDateMatch(m, str, now, j) ==
    IF ~m.ok THEN ReminderDateRule(str, now, j + 1)
    ELSE IF j <= 4
    THEN ReminderDateOr(ReminderDate(YearOf(str, m), Int_(Group(m, 2)),
                                     DayOf(str, m)), str, now, j)
    ELSE ReminderDateOr(ReminderDate(InferredYear(Int_(Group(m, 2)),
                                                  Int_(Group(m, 1)), now),
                                     Int_(Group(m, 2)), Int_(Group(m, 1))),
                        str, now, j)
ReminderDateRule(str, now, j) ==
    IF j > Len(reminder_date_patterns) THEN Pass
    ELSE ReminderDateMatch(ReMatch(reminder_date_patterns[j], str), str, now, j)

\* the forms of parse_reminder in the order of the source
NumReminderRules == 5

ReminderRule(k, str, now, dl) ==
    CASE k = 1 -> RelativeReminderRule(str, now, dl)
      [] k = 2 -> GenericReminderRule(str, now, dl)
      [] k = 3 -> ReminderTimeRule(str, now, 1)
      [] k = 4 -> ReminderDateTimeRule(str, 1)
      [] k = 5 -> ReminderDateRule(str, now, 1)

RECURSIVE ReminderRulesFrom(_, _, _, _)
OrNextReminderRule(r, k, str, now, dl) ==
    IF r # Pass THEN r ELSE ReminderRulesFrom(k + 1, str, now, dl)
ReminderRulesFrom(k, str, now, dl) ==
    IF k > NumReminderRules THEN None
    ELSE OrNextReminderRule(ReminderRule(k, str, now, dl), k, str, now, dl)

\* parse_reminder(reminder_str, deadline) when now() returns now
parse_reminder(reminder_str, now, dl) ==
    ReminderRulesFrom(1, Lower(Strip(reminder_str)), now, dl)

(***************************************************************************)
(* normalize_voice_text                                                    *)
(***************************************************************************)
UpperOf(c) ==
    CASE c = "a" -> "A" [] c = "b" -> "B" [] c = "c" -> "C" [] c = "d" -> "D"
      [] c = "e" -> "E" [] c = "f" -> "F" [] c = "g" -> "G" [] c = "h" -> "H"
      [] c = "i" -> "I" [] c = "j" -> "J" [] c = "k" -> "K" [] c = "l" -> "L"
      [] c = "m" -> "M" [] c = "n" -> "N" [] c = "o" -> "O" [] c = "p" -> "P"
      [] c = "q" -> "Q" [] c = "r" -> "R" [] c = "s" -> "S" [] c = "t" -> "T"
      [] c = "u" -> "U" [] c = "v" -> "V" [] c = "w" -> "W" [] c = "x" -> "X"
      [] c = "y" -> "Y" [] c = "z" -> "Z" [] OTHER -> c

\* text[0].upper() + text[1:] if len(text) > 1 else text.upper()
capitalize_first(txt) ==
    IF txt = "" THEN txt
    ELSE IF Len(txt) > 1
         THEN UpperOf(CharAt(txt, 0)) \o Slice(txt, 1, Len(txt))
         ELSE UpperOf(txt)

\* \bw\b
Word(w) == Cat(<<WB, Lit(w), WB>>)

\* (?:minut?|m)?
MinutesWord == Opt(Alt(<<Cat(<<Lit("minu"), Opt(Lit("t"))>>), Lit("m")>>))

\* \b(\d{1,2})\s*w\s*(\d{1,2})\s*(?:minut?|m)?\b
HoursThenMinutes(w) ==
    Cat(<<WB, Grp(1, D12), Star(S), Lit(w), Star(S), Grp(2, D12), Star(S),
          MinutesWord, WB>>)

\* \b(\d{1,2})\s+w\b
HoursWord(w) == Cat(<<WB, Grp(1, D12), Plus(S), Lit(w), WB>>)

\* (\d{1,2}[:.]?\d{0,2})
LooseTime(n) == Grp(n, Cat(<<D12, Opt(Set({":", "."})), Rep(D, 0, 2)>>))

\* \bv\s+(\d{1,2}[:.]?\d{0,2})\s+w\b
AtTimeWord(w) ==
    Cat(<<WB, Lit("v"), Plus(S), LooseTime(1), Plus(S), Lit(w), WB>>)

\* (zavtra|segodnya|poslezavtra)
DayWord(n) == Grp(n, Alt(<<Lit("zavtra"), Lit("segodnya"), Lit("poslezavtra")>>))

\* the words that may follow "16 00"
AfterTimeWord(n) ==
    Grp(n, Alt(<<Cat(<<Lit("chaso"), Opt(Lit("v"))>>), Lit("ch"),
                 Cat(<<Lit("minu"), Opt(Lit("t"))>>), Lit("m"),
                 Lit("utra"), Lit("dnya"), Lit("vechera"), Lit("nochi"),
                 Lit("zavtra"), Lit("segodnya"), Lit("poslezavtra")>>))

\* the stems that must not follow "16 30" for it to be read as a time
NotATimeStem ==
    Alt(<<Lit("yanvar"), Lit("fevral"), Lit("mart"), Lit("aprel"), Lit("maj"),
          Lit("iyun"), Lit("iyul"), Lit("avgust"), Lit("sentyabr"),
          Lit("oktyabr"), Lit("noyabr"), Lit("dekabr"), Lit("dnya"),
          Lit("nedel"), Lit("mesyac")>>)

\* [-goe]
OrdinalEnding == Set({"-", "g", "o", "e"})

\* the list replacements: pairs of a pattern and a replacement template
replacements ==
    << <<Word("zavtrashnij denq"), <<TS("zavtra")>> >>,
       <<Word("zavtrashnij"), <<TS("zavtra")>> >>,
       <<Word("posle zavtra"), <<TS("poslezavtra")>> >>,
       <<Word("posle zavtrashnij"), <<TS("poslezavtra")>> >>,
       <<Word("poslezavtrashnij"), <<TS("poslezavtra")>> >>,
       <<Word("posle zavtrashnego dnya"), <<TS("poslezavtra")>> >>,
       <<Word("segodnyashnij denq"), <<TS("segodnya")>> >>,
       <<Word("segodnyashnij"), <<TS("segodnya")>> >>,
       <<Word("utrom"), <<TS("utra")>> >>,
       <<Word("dnem"), <<TS("dnya")>> >>,
       <<Word("dnyom"), <<TS("dnya")>> >>,
       <<Word("vecherom"), <<TS("vechera")>> >>,
       <<Word("nochqyu"), <<TS("nochi")>> >>,
       <<HoursThenMinutes("chasov"), <<TG(1), TS(":"), TG(2)>> >>,
       <<HoursThenMinutes("chas"), <<TG(1), TS(":"), TG(2)>> >>,
       <<HoursThenMinutes("ch"), <<TG(1), TS(":"), TG(2)>> >>,
       <<HoursThenMinutes("chasa"), <<TG(1), TS(":"), TG(2)>> >>,
       <<HoursWord("chasov"), <<TG(1), TS(":00")>> >>,
       <<HoursWord("chas"), <<TG(1), TS(":00")>> >>,
       <<HoursWord("ch"), <<TG(1), TS(":00")>> >>,
       <<Cat(<<WB, Lit("vremya"), Plus(S), LooseTime(1), WB>>), <<TG(1)>> >>,
       <<AtTimeWord("chasov"), <<TS("v "), TG(1)>> >>,
       <<AtTimeWord("chas"), <<TS("v "), TG(1)>> >>,
       <<AtTimeWord("chasa"), <<TS("v "), TG(1)>> >>,
       <<Cat(<<Star(S), Lit(":"), Star(S)>>), <<TS(":")>> >>,
       <<Cat(<<Star(S), Lit("."), Star(S)>>), <<TS(".")>> >>,
       <<Cat(<<WB, Lit("v"), Plus(S), Grp(1, D12), Plus(S), Grp(2, D2), WB>>),
         <<TS("v "), TG(1), TS(":"), TG(2)>> >>,
       <<Cat(<<WB, Grp(1, D12), Plus(S), Grp(2, D2), Plus(S), AfterTimeWord(3)>>),
         <<TG(1), TS(":"), TG(2), TS(" "), TG(3)>> >>,
       <<Cat(<<WB, Grp(1, D12), Plus(S), Grp(2, D2), Star(S), EOL>>),
         <<TG(1), TS(":"), TG(2)>> >>,
       <<Cat(<<WB, Grp(1, Alt(<<Lit("zavtra"), Lit("segodnya"), Lit("poslezavtra"),
                                Cat(<<D12, Plus(S), MonthName>>)>>)),
               Plus(S), Grp(2, D12), Plus(S), Grp(3, D2), WB>>),
         <<TG(1), TS(" v "), TG(2), TS(":"), TG(3)>> >>,
       <<Cat(<<WB, Grp(1, D12), Plus(S), Grp(2, D2), WB,
               NotAhead(Cat(<<Star(S), NotATimeStem>>))>>),
         <<TG(1), TS(":"), TG(2)>> >>,
       <<Cat(<<WB, Lit("v"), Plus(S), LooseTime(1), Plus(S), DayWord(2), WB>>),
         <<TG(2), TS(" v "), TG(1)>> >>,
       <<Cat(<<WB, Grp(1, Cat(<<D12, Set({":", "."}), D2>>)), Plus(S),
               DayWord(2), WB>>),
         <<TG(2), TS(" v "), TG(1)>> >>,
       <<Cat(<<WB, Grp(1, D12), Plus(S), DayWord(2), WB>>),
         <<TG(2), TS(" v "), TG(1)>> >>,
       <<Cat(<<WB, Lit("v"), Plus(S), Grp(1, D12), Plus(S), TimeOfDayWord(2), WB>>),
         <<TG(1), TS(" "), TG(2)>> >>,
       <<Cat(<<WB, Lit("v"), Plus(S), Grp(1, D12), Plus(S), Lit("chas"),
               Opt(Lit("a")), Plus(S), TimeOfDayWord(2), WB>>),
         <<TG(1), TS(" "), TG(2)>> >>,
       <<Word("odinnadcatq"), <<TS("odinnadcatq")>> >>,
       <<Word("dvenadcatq"), <<TS("dvenadcatq")>> >>,
       <<Word("trinadcatq"), <<TS("trinadcatq")>> >>,
       <<Word("chetyrnadcatq"), <<TS("chetyrnadcatq")>> >>,
       <<Word("pyatnadcatq"), <<TS("pyatnadcatq")>> >>,
       <<Word("shestnadcatq"), <<TS("shestnadcatq")>> >>,
       <<Word("semnadcatq"), <<TS("semnadcatq")>> >>,
       <<Word("vosemnadcatq"), <<TS("vosemnadcatq")>> >>,
       <<Word("devyatnadcatq"), <<TS("devyatnadcatq")>> >>,
       <<Word("dvadcatq"), <<TS("dvadcatq")>> >>,
       <<Cat(<<WB, Lit("cherez"), Plus(S), Grp(1, Plus(D)), Plus(S),
               Grp(2, Alt(<<Lit("dnya"), Lit("dnej"), Lit("denq")>>)), WB>>),
         <<TS("cherez "), TG(1), TS(" dnya")>> >>,
       <<Cat(<<WB, Lit("cherez"), Plus(S), Grp(1, Plus(D)), Plus(S),
               Grp(2, Alt(<<Lit("nedelyu"), Lit("nedeli"), Lit("nedelq")>>)), WB>>),
         <<TS("cherez "), TG(1), TS(" nedeli")>> >>,
       <<Cat(<<WB, Grp(1, D12), OrdinalEnding, Plus(S), Grp(2, MonthName)>>),
         <<TG(1), TS(" "), TG(2)>> >>,
       <<Cat(<<WB, Grp(1, D12), Plus(S), OrdinalEnding, Plus(S), Grp(2, MonthName)>>),
         <<TG(1), TS(" "), TG(2)>> >>,
       <<Cat(<<Set({",", ";"}), Star(S)>>), <<TS(" ")>> >> >>

\* normalized = text.lower().strip(), and the loop starts
Lowered(txt) == Strip(Lower(txt))

\* normalized = re.sub(pattern, replacement, normalized, flags=re.IGNORECASE)
Replaced(pair, str) == ReSub(pair[1], pair[2], str)

\* what the function returns once the loop is over
Capitalized(str) == capitalize_first(Strip(ReSub(Plus(S), <<TS(" ")>>, str)))

\* the loop over replacements, from entry j on
RECURSIVE ReplacedFrom(_, _)
ReplacedFrom(str, j) ==
    IF j > Len(replacements) THEN str
    ELSE LET replaced == Replaced(replacements[j], str)
         IN IF replaced = str THEN ReplacedFrom(str, j + 1)
            ELSE ReplacedFrom(replaced, j + 1)

normalize_voice_text(txt) ==
    IF txt = "" THEN txt ELSE Capitalized(ReplacedFrom(Lowered(txt), 1))

(***************************************************************************)
(* The calls.  A behaviour is one call: the environment fixes the text,    *)
(* the value of now() and the optional deadline, the function returns.     *)
(***************************************************************************)
DigitStr(d) ==
    CASE d = 0 -> "0" [] d = 1 -> "1" [] d = 2 -> "2" [] d = 3 -> "3"
      [] d = 4 -> "4" [] d = 5 -> "5" [] d = 6 -> "6" [] d = 7 -> "7"
      [] d = 8 -> "8" [] d = 9 -> "9"

\* str(n) for n in 0..99, and with a leading zero
Str(n) == IF n < 10 THEN DigitStr(n) ELSE DigitStr(n \div 10) \o DigitStr(n % 10)
Str2(n) == DigitStr(n \div 10) \o DigitStr(n % 10)

\* number of consecutive reference dates, starting on Monday 2026-02-09
RefDays == 7

At(y, m, d, t) ==
    [year |-> y, month |-> m, day |-> d,
     hour |-> t[1], minute |-> t[2], second |-> t[3], microsecond |-> t[4]]

RefDates ==
    {FromOrdinal(ToOrdinal(2026, 2, 9) + k) : k \in 0..(RefDays - 1)}
    \cup {[year |-> 2026, month |-> 12, day |-> 31],
          [year |-> 2028, month |-> 2, day |-> 28]}

\* times of day of the reference instant: hour, minute, second, microsecond
RefTimes ==
    {<<0, 0, 0, 0>>, <<7, 0, 0, 0>>, <<8, 0, 0, 0>>, <<10, 0, 0, 0>>,
     <<14, 29, 59, 999999>>, <<14, 30, 0, 0>>, <<14, 30, 0, 1>>, <<15, 0, 0, 0>>,
     <<23, 59, 59, 999999>>}

Refs(dates, times) ==
    {At(d.year, d.month, d.day, t) : d \in dates, t \in times}

Tuesday == [year |-> 2026, month |-> 2, day |-> 10]

WeekdayNames == {weekdays[j][1] : j \in 1..Len(weekdays)}

RelativeWords == {"segodnya", "zavtra", "poslezavtra"}

BareTimes ==
    {Str(h) \o ":" \o Str2(mi) : h \in {0, 7, 14, 23}, mi \in {0, 30}}

TimeOfDayWords == {"utra", "dnya", "vechera", "nochi"}

TimeOfDayTexts ==
    {Str(h) \o mid \o w : h \in 0..23, mid \in {" ", " chasa "},
                          w \in TimeOfDayWords}
    \cup {number_words[j][1] \o " " \o w : j \in {2, 9, 14, 28},
                                        w \in TimeOfDayWords}

\* the inputs of parse_deadline: a text and the value of now()
DeadlineInputs ==
    (WeekdayNames \cup {" Vtornik ", "SR"})
        \X Refs(RefDates, {<<0, 0, 0, 0>>, <<10, 0, 0, 0>>, <<23, 59, 59, 999999>>})
    \cup (RelativeWords \cup {"Zavtra "})
        \X Refs(RefDates, {<<0, 0, 0, 0>>, <<10, 0, 0, 0>>, <<23, 59, 59, 999999>>})
    \cup BareTimes \X Refs({Tuesday, [year |-> 2026, month |-> 12, day |-> 31]},
                           RefTimes)
    \cup TimeOfDayTexts \X Refs({Tuesday}, {<<7, 0, 0, 0>>, <<8, 0, 0, 0>>,
                                            <<14, 30, 0, 1>>})

Init ==
    /\ \E inp \in DeadlineInputs : text = inp[1] /\ now_dt = inp[2]
    /\ deadline = None
    /\ pc = "ready"
    /\ result = None
    /\ NoVoice
    /\ NoCalls
    /\ NoSchedule

\* deadline_dt = parse_deadline(text)
CallParseDeadline ==
    /\ pc = "ready"
    /\ result' = parse_deadline(text, now_dt)
    /\ pc' = "parse_deadline"
    /\ UNCHANGED <<now_dt, text, deadline>>
    /\ UNCHANGED voice_vars
    /\ UNCHANGED call_vars
    /\ UNCHANGED sched_vars

Next == CallParseDeadline

Spec == Init /\ [][Next]_vars

\* number of consecutive reference dates of the extraction, from 2026-02-10
ExtractDays == 2

ExtractRefs ==
    Refs({FromOrdinal(ToOrdinal(2026, 2, 10) + k) : k \in 0..(ExtractDays - 1)}
         \cup {[year |-> 2026, month |-> 12, day |-> 31]},
         {<<10, 0, 0, 0>>, <<16, 0, 0, 0>>, <<23, 59, 59, 999999>>})

\* titles without a date or a time
Titles == {"Sobranie", "Kupitq xleb", "otchet"}

RelativeAtTexts ==
    {w \o " v " \o t : w \in RelativeWords \cup {"Zavtra"},
                       t \in {"16:00", "9:05", "0:00", "23:59"}}

\* a deadline with nothing around it
BareDeadlines ==
    {"zavtra v 16:00", "Segodnya v 9:05", "zavtra", "19:00", "15 fevralya",
     "vtornik 14:00", "7 utra", "cherez nedelyu", "25.01.2026 18:00",
     "poslezavtra 14 00"}

\* texts where no pattern finds a deadline that resolves
NoDeadlineTexts ==
    Titles \cup {"Pozvonitq mame", "Otchet zavtra v 25:00", "Otchet 32 yanvarya",
                 "Otchet 24:00", "Otchet cherez 5 dnej", "Sobranie sreda",
                 "Otchet 19:00 srochno", "Otchet sr 25"}

OtherDeadlineTexts ==
    {"Otchet 15 noyabrya 14 00", "Otchet sr 9 srochno", "Otchet zavtra",
     "Otchet 15 fevralya v 14:00", "Otchet 25.01.2026 18:00",
     "Otchet cherez nedelyu", "Otchet cherez 2 nedeli",
     "Sdatq otchet shestq vechera", "v 16:00 zavtra sobranie", "Otchet 19:00",
     "Otchet 25/01/2026", "Otchet poslezavtra 9", "Otchet 1 maya 10:00",
     "Otchet 15 noyabrya 14 chasov", "Pozvonitq mame zavtra v 7 utra"}

\* the texts of extract_deadline_from_text: the handlers strip the message
\* and refuse an empty one
ExtractTexts ==
    {ti \o " " \o e : ti \in Titles, e \in RelativeAtTexts}
    \cup {e \o " " \o ti : ti \in Titles, e \in {"zavtra v 16:00", "Segodnya v 9:05"}}
    \cup {"Otchet  " \o e \o " srochno" : e \in {"zavtra v 16:00", "poslezavtra  v 0:00"}}
    \cup BareDeadlines \cup NoDeadlineTexts \cup OtherDeadlineTexts

InitExtract ==
    /\ text \in ExtractTexts
    /\ now_dt \in ExtractRefs
    /\ deadline = None
    /\ pc = "ready"
    /\ result = None
    /\ NoVoice
    /\ NoCalls
    /\ NoSchedule

\* task_title, deadline_dt = extract_deadline_from_text(raw_text)
CallExtract ==
    /\ pc = "ready"
    /\ result' = extract_deadline_from_text(text, now_dt)
    /\ pc' = "extract_deadline_from_text"
    /\ UNCHANGED <<now_dt, text, deadline>>
    /\ UNCHANGED voice_vars
    /\ UNCHANGED call_vars
    /\ UNCHANGED sched_vars

NextExtract == CallExtract

SpecExtract == InitExtract /\ [][NextExtract]_vars

\* "cherez N <unit>" with the integers that int() accepts, signed or not
ThroughTexts ==
    {"cherez " \o n \o " " \o u :
         n \in {"-5", "-1", "0", "1", "+2", "3"},
         u \in {"dnya", "dnej", "nedeli", "mesyaca"}}
    \cup {"cherez nedelyu", "cherez 5 let"}

\* deadline texts that name no year
NoYearTexts ==
    BareTimes \cup RelativeWords \cup ThroughTexts
    \cup {"9 utra", "7 vechera", "2 chasa dnya", "9", "v 9 chasov", "do 9:00",
          "segodnya v 9", "segodnya 14:30", "zavtra v 0:00", "v 9 segodnya",
          "segodnya do 9", "segodnya v 9 utra",
          "vtornik", "sr", "vtornik 9:00", "vtornik v 14:30", "ponedelqnik 9",
          "10 fevralya", "9 fevralya", "11 fevralya", "10 fevralya v 9",
          "10 fevralya v 9:30", "10 fevralya v 23", "9 fevralya v 9",
          "10.02", "09.02", "10/02", "9/2", "25.12", "11.02"}

InitNoYear ==
    /\ text \in NoYearTexts
    /\ now_dt \in Refs({Tuesday}, {<<0, 0, 0, 0>>, <<10, 0, 0, 0>>,
                                   <<14, 30, 0, 1>>, <<23, 59, 59, 999999>>})
    /\ deadline = None
    /\ pc = "ready"
    /\ result = None
    /\ NoVoice
    /\ NoCalls
    /\ NoSchedule

SpecNoYear == InitNoYear /\ [][Next]_vars

\* texts in which several patterns of the table find a deadline
PriorityTexts ==
    {"Otchet vtornik 14:00 zavtra v 9", "Otchet zavtra v 9 vtornik 14:00",
     "Otchet 25.01.2026 i 26/01/2026", "Otchet 26/01/2026 i 25.01.2026",
     "Otchet zavtra v 9:30", "Otchet 15 fevralya v 14:00",
     "Otchet segodnya 7 vechera", "Otchet 15 marta 7 vechera",
     "Otchet cherez nedelyu 14:00", "Otchet cherez 2 nedeli segodnya",
     "v 16:00 zavtra sobranie v 9 utra", "Otchet 1 maya zavtra 10",
     "Sobranie sr 15 fevralya v 14", "Otchet zavtra 15 iyunya v 10"}

\* texts with "v H" or "v H:MM", with and without a date before it
BareAtTexts ==
    {"Pozvonitq v 19", "Pozvonitq v 19:00", "Pozvonitq v 9:00", "v 19",
     "v 19:00", "Sobranie v 15 kabinete", "Sobranie v 15:00 v kabinete",
     "Otchet zavtra v 9", "Otchet 15 iyunya v 14", "Otchet 25.01 v 18:00",
     "Otchet 25.01 v 18", "Otchet 25/01 v 18", "zavtra otchet v 14",
     "Otchet zavtra v 14 srochno", "Sdatq v 9 otchet segodnya",
     "Otchet 15 fevralya v 14:30 srochno"}

\* texts with a relative date and what follows it: a digit, "v", a word
RelativeThenTimeTexts ==
    {"Otchet zavtra 25", "Otchet zavtra v 25", "Otchet zavtra 9",
     "Otchet segodnya 100 stranic", "Otchet zavtra v 14:99",
     "Otchet zavtra 31.12.2026", "Otchet zavtra 11.02.2026",
     "zavtra 5go chisla", "Otchet poslezavtra  v  7", "Otchet zavtra v5",
     "Otchet zavtra-5", "Otchet zavtra vecherom",
     "Otchet segodnya 14 chasov", "Otchet zavtra 1 raz",
     "segodnya 2 otcheta zavtra"}

\* texts with a date without a time and a time after it
DateThenTimeTexts ==
    {"Otchet 15 yanvarya 14:00", "Otchet 15 fevralya 14 00",
     "Otchet 15 avgusta 14 chasov", "Otchet 15 marta 14:00",
     "Otchet 15 iyunya 14 00 srochno", "Otchet 15 noyabrya 14 chasov",
     "Otchet 1 maya 2026 9:05", "Otchet 15 dekabrya v 14",
     "Otchet 25.01.2026 v 18", "Otchet 25.03.2026 18 00",
     "Otchet 25/01/2026 v 18", "Otchet cherez 3 dnya v 14:00",
     "Otchet cherez 2 nedeli v 14:00", "Otchet cherez nedelyu v 14",
     "Otchet segodnya semq vechera", "Otchet 15 iyunya 25:00",
     "Otchet 15 iyunya", "Otchet 15 sentyabrya 18.30",
     "Otchet 15 aprelya 9 utra",
     "Otchet 15 oktyabrya 2026 14 chasov 30 minut"}

InitContext ==
    /\ text \in PriorityTexts \cup BareAtTexts \cup RelativeThenTimeTexts
                  \cup DateThenTimeTexts
    /\ now_dt \in Refs({Tuesday}, {<<10, 0, 0, 0>>, <<20, 0, 0, 0>>})
    /\ deadline = None
    /\ pc = "ready"
    /\ result = None
    /\ NoVoice
    /\ NoCalls
    /\ NoSchedule

SpecContext == InitContext /\ [][NextExtract]_vars

\* the largest N of the texts "za N <unit>", "cherez N <unit>"
MaxAmount == 3

ReminderUnits ==
    {"minut", "minutu", "chas", "chasa", "denq", "dnya", "nedeli", "let"}

RelativeReminderTexts ==
    {relative_reminders[j][1] : j \in 1..Len(relative_reminders)}

GenericReminderTexts ==
    {p \o " " \o Str(n) \o " " \o u :
        p \in {"za", "cherez"}, n \in 1..MaxAmount, u \in ReminderUnits}

OtherReminderTexts ==
    {"Za chas ", "za 5", "za pyatq minut", "zavtra", "napomni", "cherez -5 minut",
     "18:30", "9.05", "18 30", "0:00", "14:30", "25:00", "17:30",
     "11.02.2026 10:00", "01.01.2020 10:00", "2026-02-10 10:00",
     "10/02/2026 17.30", "31.02.2026 10:00", "10-02-2026 18:00",
     "11.02.2026", "01.01.2020", "2026-02-10", "10.02", "09.02", "11/2", "29.02",
     "31.12", "10-02-2026"}

ReminderTexts ==
    RelativeReminderTexts \cup GenericReminderTexts \cup OtherReminderTexts

ReminderRefs ==
    Refs({Tuesday}, {<<10, 0, 0, 0>>, <<17, 30, 0, 0>>, <<14, 30, 0, 1>>,
                     <<23, 59, 59, 999999>>})

\* the deadline of the task, if it has one
ReminderDeadlines ==
    {None, At(2026, 2, 10, <<18, 0, 0, 0>>), At(2026, 2, 10, <<11, 0, 0, 0>>),
     At(2026, 2, 9, <<12, 0, 0, 0>>), At(2026, 2, 20, <<18, 0, 0, 0>>)}

InitReminder ==
    /\ text \in ReminderTexts
    /\ now_dt \in ReminderRefs
    /\ deadline \in ReminderDeadlines
    /\ pc = "ready"
    /\ result = None
    /\ NoVoice
    /\ NoCalls
    /\ NoSchedule

\* reminder_dt = parse_reminder(reminder_str, deadline)
CallParseReminder ==
    /\ pc = "ready"
    /\ result' = parse_reminder(text, now_dt, deadline)
    /\ pc' = "parse_reminder"
    /\ UNCHANGED <<now_dt, text, deadline>>
    /\ UNCHANGED voice_vars
    /\ UNCHANGED call_vars
    /\ UNCHANGED sched_vars

NextReminder == CallParseReminder

SpecReminder == InitReminder /\ [][NextReminder]_vars

\* what the speech recogniser hands to normalize_voice_text
VoiceTexts ==
    {"", "Ya", "16, zavtra", "vstrecha v 16, zavtra", "zavtra, v 16 30",
     "kupitq xleb, v 16 30", "Vstrecha, 16 chasov",
     "zavtra v 16 chasov 30 minut", "Zavtrashnij denq 5 chasov",
     "v 5 vecherom", "15 marta 16 30", "1-go marta", "cherez 3 dnej",
     "segodnya dnyom", "vremya 16 30", "v 16 00", "Pozvonitq zavtra 18 00",
     "v 5 chasa utra", "16 30", "20 30 marta", "v 16.30 zavtra",
     "16:30 zavtra", "otchyot; v 9 zavtra", "16 zavtra chasa", "5 ch ch",
     " Posle zavtra  utrom ", "pozvonitq mame"}

\* a voice text arrives; normalize_voice_text is applied to it, then to
\* what it returned
InitVoice ==
    /\ text \in VoiceTexts
    /\ now_dt = At(2026, 2, 10, <<10, 0, 0, 0>>)
    /\ deadline = None
    /\ pc = "ready"
    /\ result = None
    /\ NoVoice
    /\ NoCalls
    /\ NoSchedule

\* normalize_voice_text(txt) up to the start of the loop
EnterNormalize(txt) ==
    IF txt = ""
    THEN /\ result' = txt
         /\ pc' = "normalize_voice_text"
         /\ UNCHANGED <<normalized, step>>
    ELSE /\ normalized' = Lowered(txt)
         /\ step' = 1
         /\ pc' = "replacing"
         /\ UNCHANGED result

\* text = normalize_voice_text(text)
CallNormalize ==
    /\ pc = "ready"
    /\ EnterNormalize(text)
    /\ UNCHANGED <<now_dt, text, deadline, once>>
    /\ UNCHANGED call_vars
    /\ UNCHANGED sched_vars

\* one turn of the loop over replacements
ApplyReplacement ==
    /\ pc = "replacing"
    /\ step <= Len(replacements)
    /\ normalized' = Replaced(replacements[step], normalized)
    /\ step' = step + 1
    /\ UNCHANGED <<now_dt, text, deadline, pc, result, once>>
    /\ UNCHANGED call_vars
    /\ UNCHANGED sched_vars

\* the loop is over: spaces, strip, capital letter, return
ReturnNormalized ==
    /\ pc = "replacing"
    /\ step > Len(replacements)
    /\ result' = Capitalized(normalized)
    /\ pc' = "normalize_voice_text"
    /\ UNCHANGED <<now_dt, text, deadline, normalized, step, once>>
    /\ UNCHANGED call_vars
    /\ UNCHANGED sched_vars

\* normalize_voice_text applied to what it returned
CallNormalizeAgain ==
    /\ pc = "normalize_voice_text"
    /\ once = <<>>
    /\ once' = <<result>>
    /\ text' = result
    /\ EnterNormalize(result)
    /\ UNCHANGED <<now_dt, deadline>>
    /\ UNCHANGED call_vars
    /\ UNCHANGED sched_vars

NextVoice ==
    \/ CallNormalize
    \/ ApplyReplacement
    \/ ReturnNormalized
    \/ CallNormalizeAgain

SpecVoice == InitVoice /\ [][NextVoice]_vars

\* deadline texts with a numeric field out of its range: an hour above 23,
\* a minute above 59, a month outside 1..12, a day the month does not have
OutOfRangeTexts ==
    {Str(h) \o " " \o w : h \in {24, 25, 30, 99}, w \in TimeOfDayWords}
    \cup {"25:00", "24:00", "10:60", "10:75", "zavtra v 25", "zavtra v 25:00",
          "zavtra v 10:60", "do 25:00", "vtornik 25:00", "vtornik v 10:60",
          "v 25", "25 chasov"}
    \cup {"32.01.2026", "31.02.2026", "15.13.2026", "32.01", "00.01.2026",
          "15.00.2026", "2026-13-01", "2026-02-30", "31/02", "29.02.2027",
          "15.13.2026 10:00", "15.02.2026 25:00", "15.02.2026 10:60"}
    \cup {"32 yanvarya", "30 fevralya", "0 marta", "31 aprelya",
          "32 yanvarya v 10", "15 yanvarya v 25", "15 yanvarya v 10:60"}

\* deadline texts with every field in its range
InRangeTexts ==
    {"10 utra", "23:59", "zavtra v 10:30", "28.02.2026", "15.02.2026 10:00",
     "15 yanvarya v 10", "31 marta", "25.12", "25/12", "15.03", "15/03",
     "9 fevralya", "10 fevralya", "11 fevralya"}

InitRange ==
    /\ text \in OutOfRangeTexts \cup InRangeTexts
    /\ now_dt \in Refs({Tuesday}, {<<10, 0, 0, 0>>, <<23, 59, 59, 999999>>})
    /\ deadline = None
    /\ pc = "ready"
    /\ result = None
    /\ NoVoice
    /\ NoCalls
    /\ NoSchedule

SpecRange == InitRange /\ [][Next]_vars

\* a weekday name, "v" or not, a time
WeekdayTimeTexts ==
    {w \o mid \o t : w \in WeekdayNames, mid \in {" ", " v "},
                     t \in {"14:30", "9", "0:00"}}
    \cup {" Vtornik 14.30 ", "SR v 1430", "pyatnica  v  23 59"}

\* the days of one week, Monday 2026-02-09 to Sunday 2026-02-15
WeekDates == {FromOrdinal(ToOrdinal(2026, 2, 9) + k) : k \in 0..6}

InitWeekdayTime ==
    /\ text \in WeekdayTimeTexts
    /\ now_dt \in Refs(WeekDates, {<<0, 0, 0, 0>>, <<14, 29, 59, 999999>>,
                                   <<14, 30, 0, 0>>, <<14, 30, 0, 1>>,
                                   <<23, 59, 59, 999999>>})
    /\ deadline = None
    /\ pc = "ready"
    /\ result = None
    /\ NoVoice
    /\ NoCalls
    /\ NoSchedule

SpecWeekdayTime == InitWeekdayTime /\ [][Next]_vars

\* the hours said with a time-of-day word: digits, also above 23, and words
SaidHours ==
    {Str(h) : h \in 0..23} \cup {"24", "99"}
    \cup {number_words[j][1] : j \in {2, 9, 15, 28}}

\* a relative date, "v" or not, an hour, "chasa" or not, a time-of-day word
RelativeTimeOfDayTexts ==
    {r \o mid \o h \o hmid \o w :
         r \in RelativeWords, mid \in {" ", " v "}, h \in SaidHours,
         hmid \in {" "}, w \in TimeOfDayWords}
    \cup {"zavtra v " \o h \o " chasa " \o w :
              h \in {"2", "7", "dva"}, w \in TimeOfDayWords}

\* a relative date, "v" or not, a time in digits
RelativeDateTimeTexts ==
    {r \o mid \o t : r \in RelativeWords, mid \in {" ", " v "},
                     t \in {"0", "9", "14:30", "14.30", "23:59"}}
    \cup {r \o t : r \in RelativeWords,
                   t \in {" 14 30", " v 14 chasov", " v 14 chasov 30",
                          " v 14 chasov 30 minut"}}

\* "v", a time in digits, a relative date
TimeBeforeDateTexts ==
    {"v " \o t \o " " \o r : r \in RelativeWords,
                             t \in {"0", "9", "14:30", "14.30", "14 30", "1430",
                                    "23:59"}}

InitRelative ==
    /\ text \in RelativeTimeOfDayTexts \cup RelativeDateTimeTexts
                  \cup TimeBeforeDateTexts
    /\ now_dt \in Refs({Tuesday, [year |-> 2026, month |-> 12, day |-> 31]},
                       {<<0, 0, 0, 0>>, <<7, 0, 0, 0>>, <<14, 29, 59, 999999>>,
                        <<14, 30, 0, 0>>, <<14, 30, 0, 1>>,
                        <<23, 59, 59, 999999>>})
    /\ deadline = None
    /\ pc = "ready"
    /\ result = None
    /\ NoVoice
    /\ NoCalls
    /\ NoSchedule

SpecRelative == InitRelative /\ [][Next]_vars

(***************************************************************************)
(* Concurrent calls.  Each call has its own arguments and local variables; *)
(* the clock behind now() is all the calls have in common, and it moves on *)
(* while they run.                                                         *)
(***************************************************************************)
\* the number of calls that run at the same time
NumCalls == 2

CallIds == 1..NumCalls

\* the number of times the clock moves on, an hour each time
MaxTicks == 1

\* the clock at the start: half an hour before midnight
StartOfClock == At(2026, 2, 10, <<23, 30, 0, 0>>)

\* the calls that are made: function, text, deadline
Jobs ==
    << <<"normalize_voice_text", "vstrecha v 16, zavtra", None>>,
       <<"parse_deadline", "Zavtra v 9", None>>,
       <<"extract_deadline_from_text", "Otchet zavtra v 9", None>>,
       <<"parse_reminder", "za 1 chas", At(2026, 2, 11, <<18, 0, 0, 0>>)>> >>

\* a call before it starts
NewCall(job) ==
    [fn |-> job[1], text |-> job[2], deadline |-> job[3], pc |-> "ready",
     str |-> "", now_dt |-> None, result |-> None]

InitConcurrent ==
    /\ \E jobs \in [CallIds -> 1..Len(Jobs)] :
           /\ \A c, d \in CallIds : c < d => jobs[c] <= jobs[d]
           /\ calls = [c \in CallIds |-> NewCall(Jobs[jobs[c]])]
    /\ clock = StartOfClock
    /\ text = ""
    /\ now_dt = StartOfClock
    /\ deadline = None
    /\ pc = "ready"
    /\ result = None
    /\ NoVoice
    /\ NoSchedule

\* the first statements of a function: its local copy of the text, and for
\* parse_deadline and parse_reminder current_time = now()
Begun(call, clk) ==
    [call EXCEPT
       !.pc = "running",
       !.str = CASE call.fn = "normalize_voice_text" -> Lowered(call.text)
                 [] call.fn = "parse_deadline" -> NormalizeDeadlineStr(call.text)
                 [] OTHER -> Lower(Strip(call.text)),
       !.now_dt = IF call.fn \in {"parse_deadline", "parse_reminder"}
                  THEN clk ELSE @]

\* faulty variant: the clock as it is when the call ends
ReferenceInstantBug(call, clk) == clk

\* the reference instant the rest of a call works with: the one it read
\* when it began; extract_deadline_from_text reads it when it calls
\* parse_deadline
ReferenceInstant(call, clk) ==
    IF call.fn = "extract_deadline_from_text" THEN clk ELSE call.now_dt

\* what a call returns, from its local variables and its reference instant
Return(call, now) ==
    CASE call.fn = "normalize_voice_text" ->
           IF call.text = "" THEN call.text
           ELSE Capitalized(ReplacedFrom(call.str, 1))
      [] call.fn = "parse_deadline" -> FirstReturn(Rules(call.str, now))
      [] call.fn = "extract_deadline_from_text" ->
           extract_deadline_from_text(call.text, now)
      [] call.fn = "parse_reminder" ->
           ReminderRulesFrom(1, call.str, now, call.deadline)

Finished(call, clk) ==
    [call EXCEPT
       !.pc = "done",
       !.now_dt = IF call.fn = "extract_deadline_from_text" THEN clk ELSE @,
       !.result = Return(call, ReferenceInstant(call, clk))]

\* call c starts
Begin(c) ==
    /\ calls[c].pc = "ready"
    /\ calls' = [calls EXCEPT ![c] = Begun(@, clock)]
    /\ UNCHANGED <<now_dt, text, deadline, pc, result, clock>>
    /\ UNCHANGED voice_vars
    /\ UNCHANGED sched_vars

\* call c runs to its return
Finish(c) ==
    /\ calls[c].pc = "running"
    /\ calls' = [calls EXCEPT ![c] = Finished(@, clock)]
    /\ UNCHANGED <<now_dt, text, deadline, pc, result, clock>>
    /\ UNCHANGED voice_vars
    /\ UNCHANGED sched_vars

\* an hour passes
Tick ==
    /\ Before(clock, AddMinutes(StartOfClock, 60 * MaxTicks))
    /\ clock' = AddMinutes(clock, 60)
    /\ UNCHANGED <<now_dt, text, deadline, pc, result, calls>>
    /\ UNCHANGED voice_vars
    /\ UNCHANGED sched_vars

NextConcurrent ==
    \/ \E c \in CallIds : Begin(c)
    \/ \E c \in CallIds : Finish(c)
    \/ Tick

SpecConcurrent == InitConcurrent /\ [][NextConcurrent]_vars

(***************************************************************************)
(* The reminders of the schedule bot (src/schedule-bot/bot.py).  The bot   *)
(* runs its handlers on one event loop: a handler runs alone from one      *)
(* await to the next.  send_reminders awaits the delivery of each          *)
(* reminder; edit_field_value reads, changes and stores an event without   *)
(* an await in between.  The clock emoji that starts a title is written @. *)
(* An event is a record of the fields the handlers read or change; the     *)
(* user has no timezone setting, so that every instant is on one clock.    *)
(***************************************************************************)
\* the prefix of a title (U+1F570)
ClockEmoji == "@"

\* the seconds from instant b to instant a: (a - b).total_seconds()
TotalSeconds(a, b) ==
    (Ordinal(a) - Ordinal(b)) * 86400 + SecondOfDay(a) - SecondOfDay(b)

\* the end of the field of s that starts at i: the next sep, or the end
RECURSIVE FieldEnd(_, _, _)
FieldEnd(s, i, sep) ==
    IF i >= Len(s) \/ CharAt(s, i) = sep THEN i ELSE FieldEnd(s, i + 1, sep)

\* s.split(sep) from position i on
RECURSIVE SplitOnFrom(_, _, _)
SplitOnFrom(s, i, sep) ==
    IF FieldEnd(s, i, sep) >= Len(s) THEN <<Slice(s, i, Len(s))>>
    ELSE <<Slice(s, i, FieldEnd(s, i, sep))>>
             \o SplitOnFrom(s, FieldEnd(s, i, sep) + 1, sep)

SplitOn(s, sep) == SplitOnFrom(s, 0, sep)

\* a field of one to width digits
IsNumber(s, width) == IsDigits(s) /\ Len(s) <= width

\* datetime(y, mo, d), None for a ValueError
DateOrNone(y, mo, d) ==
    IF ValidDate(y, mo, d) THEN DateTime(y, mo, d, 0, 0, 0) ELSE None

\* the date of the fields year, month, day
DateOfFields(y, mo, d) ==
    IF IsDigits(y) /\ Len(y) = 4 /\ IsNumber(mo, 2) /\ IsNumber(d, 2)
    THEN DateOrNone(Int_(y), Int_(mo), Int_(d)) ELSE None

YearFirstDate(parts) ==
    IF Len(parts) = 3 THEN DateOfFields(parts[1], parts[2], parts[3]) ELSE None

DayFirstDate(parts) ==
    IF Len(parts) = 3 THEN DateOfFields(parts[3], parts[2], parts[1]) ELSE None

\* datetime.strptime(s, '%Y-%m-%d'), None for a ValueError
StrptimeDate(s) == YearFirstDate(SplitOn(s, "-"))

\* datetime.strptime(s, '%d.%m.%Y'), None for a ValueError
StrptimeDotted(s) == DayFirstDate(SplitOn(s, "."))

TimeOrNone(h, mi) == IF h <= 23 /\ mi <= 59 THEN <<h, mi>> ELSE None

TimeOfFields(parts) ==
    IF Len(parts) = 2 /\ IsNumber(parts[1], 2) /\ IsNumber(parts[2], 2)
    THEN TimeOrNone(Int_(parts[1]), Int_(parts[2])) ELSE None

\* datetime.strptime(s, '%H:%M'): <<hour, minute>>, None for a ValueError
StrptimeTime(s) == TimeOfFields(SplitOn(s, ":"))

\* dt.strftime('%Y-%m-%d')
StrftimeDate(dt) ==
    Str2(dt.year \div 100) \o Str2(dt.year % 100) \o "-" \o Str2(dt.month)
        \o "-" \o Str2(dt.day)

validate_event(event) ==
    StrptimeDate(event.date) # None /\ StrptimeTime(event.time) # None

\* load_data and save_data keep the events that validate
load_data(file) == SelectSeq(file, validate_event)

save_data(d) == SelectSeq(d, validate_event)

\* the positions of the events with this id
WithId(d, event_id) == {i \in DOMAIN d : d[i].id = event_id}

\* data[user_id_str][i] = updated_event and save_data(data), for the first
\* event with the id; the file is left alone if there is none
UpdatedData(file, d, found, updated_event) ==
    IF found = {} THEN file
    ELSE save_data([d EXCEPT ![FirstOf(found)] = updated_event])

UpdatedFrom(file, d, event_id, updated_event) ==
    UpdatedData(file, d, WithId(d, event_id), updated_event)

\* update_user_event: the file afterwards.  The stored event is replaced as
\* a whole by updated_event.
update_user_event(file, event_id, updated_event) ==
    IF ~validate_event(updated_event) THEN file
    ELSE UpdatedFrom(file, load_data(file), event_id, updated_event)

\* the members of a list
Members(list) == {list[j] : j \in DOMAIN list}

\* datetime.combine(event_date.date(), event_time)
Combine(event_date, event_time) ==
    Replace(event_date, event_time[1], event_time[2], 0, 0)

\* event_datetime, the instant of an event
EventDatetime(event) ==
    Combine(StrptimeDate(event.date), StrptimeTime(event.time))

\* time_diff, the seconds from now to the instant of a reminder
TimeDiff(event, reminder_minutes, now) ==
    TotalSeconds(AddMinutes(EventDatetime(event), 0 - reminder_minutes), now)

\* the firing window of a reminder
InWindow(time_diff) == 0 - 60 <= time_diff /\ time_diff < 60

\* the reminders of one event that get_events_for_reminder selects
Selected(event, now, reminder_minutes) ==
    /\ InWindow(TimeDiff(event, reminder_minutes, now))
    /\ reminder_minutes \notin Members(event.reminder_sent)

\* the tuples get_events_for_reminder appends for the event at position i:
\* the position stands for the event object the tuples share
Tuples(i, chosen) == [j \in DOMAIN chosen |-> <<i, chosen[j]>>]

TuplesOf(d, i, now) ==
    LET due(reminder_minutes) == Selected(d[i], now, reminder_minutes)
    IN Tuples(i, SelectSeq(d[i].reminders, due))

RECURSIVE TuplesFrom(_, _, _)
TuplesFrom(d, i, now) ==
    IF i > Len(d) THEN <<>>
    ELSE TuplesOf(d, i, now) \o TuplesFrom(d, i + 1, now)

\* get_events_for_reminder, of the data it loaded
get_events_for_reminder(d, now) == TuplesFrom(d, 1, now)

\* faulty variant: the offset is not recorded
MarkedSentBug(event, reminder_minutes) == event

\* send_reminders after a delivery: the offset joins reminder_sent of the
\* event object
MarkedSent(event, reminder_minutes) ==
    [event EXCEPT !.reminder_sent =
        IF reminder_minutes \notin Members(@) THEN Append(@, reminder_minutes)
        ELSE @]

\* the title edit_field_value stores
NewTitle(title) ==
    IF title # "" /\ ~StartsWith(title, ClockEmoji)
    THEN ClockEmoji \o " " \o title ELSE title

\* RELATIVE_DATES, the keys in lower case
RELATIVE_DATES ==
    << <<"segodnya", 0>>, <<"zavtra", 1>>, <<"poslezavtra", 2>>,
       <<"cherez denq", 2>>, <<"cherez 2 dnya", 2>>, <<"cherez 3 dnya", 3>>,
       <<"cherez nedelyu", 7>> >>

\* the entries of RELATIVE_DATES with this key
KnownWord(word) == {j \in DOMAIN RELATIVE_DATES : RELATIVE_DATES[j][1] = word}

\* the date edit_field_value reads from a relative word or from DD.MM.YYYY,
\* None if it reads none
DateFrom(date_str, known, now) ==
    IF known # {}
    THEN AddDays(Replace(now, 0, 0, 0, 0), RELATIVE_DATES[FirstOf(known)][2])
    ELSE StrptimeDotted(date_str)

DateObj(date_str, now) == DateFrom(date_str, KnownWord(Lower(date_str)), now)

\* the date as it is stored, "" for no date and for a date before today
DateStored(date_obj, now) ==
    IF date_obj = None THEN ""
    ELSE IF Ordinal(date_obj) < Ordinal(now) THEN ""
    ELSE StrftimeDate(date_obj)

\* the date edit_field_value stores, "" if it asks again
NewDate(message, now) == DateStored(DateObj(Strip(message), now), now)

\* time_str.replace(' ', ':') from position i on
RECURSIVE ColonsFrom(_, _)
ColonsFrom(time_str, i) ==
    IF i >= Len(time_str) THEN ""
    ELSE (IF CharAt(time_str, i) = " " THEN ":" ELSE CharAt(time_str, i))
             \o ColonsFrom(time_str, i + 1)

\* the time with minutes as it is stored, "" for a ValueError
TimeStored(time_str) == IF StrptimeTime(time_str) = None THEN "" ELSE time_str

\* the time edit_field_value stores from a stripped message, "" if it asks
\* again
TimeFrom(time_str) ==
    IF IsDigits(time_str)
    THEN IF Int_(time_str) <= 23 THEN Str2(Int_(time_str)) \o ":00" ELSE ""
    ELSE IF Contains(time_str, " ") /\ ~Contains(time_str, ":")
    THEN TimeStored(ColonsFrom(time_str, 0))
    ELSE TimeStored(time_str)

NewTime(message) == TimeFrom(Strip(message))

\* the description edit_field_value stores
NewDescription(message) == IF Lower(message) = "/skip" THEN "" ELSE message

\* the event with a new date or time, None if edit_field_value asks again
WithDate(event, date) == IF date = "" THEN None ELSE [event EXCEPT !.date = date]

WithTime(event, time) == IF time = "" THEN None ELSE [event EXCEPT !.time = time]

\* the event edit_field_value stores, None if it asks again
Edited(event, field, message, now) ==
    CASE field = "title" -> [event EXCEPT !.title = NewTitle(message)]
      [] field = "date" -> WithDate(event, NewDate(message, now))
      [] field = "time" -> WithTime(event, NewTime(message))
      [] field = "description" ->
           [event EXCEPT !.description = NewDescription(message)]

\* the event with this id that edit_field_value finds
EventWithId(events, event_id) == events[FirstOf(WithId(events, event_id))]

\* the file after edit_field_value: update_user_event(user_id, event_id,
\* event), and nothing if it asked again
StoreEdited(file, event_id, event) ==
    IF event = None THEN file ELSE update_user_event(file, event_id, event)

\* run_repeating(send_reminders, interval=60, first=10)
Interval == 60

\* the number of runs of send_reminders
MaxRuns == 3

\* the instants at which the bot may have started, less first and interval
StartsOfSchedule ==
    {At(2026, 2, 10, <<9, 58, sec, 0>>) : sec \in {0, 10}}

\* the earliest of them
StartOfSchedule == At(2026, 2, 10, <<9, 58, 0, 0>>)

\* the events in the file at the start, as finish_event_creation saves them
EventsAtStart ==
    << [id |-> "1", title |-> "@ Sovet", date |-> "2026-02-10",
        time |-> "10:15", description |-> "", reminders |-> <<15>>,
        reminder_sent |-> <<>>],
       [id |-> "2", title |-> "@ Obed", date |-> "2026-02-10",
        time |-> "10:06", description |-> "Zal 2", reminders |-> <<5>>,
        reminder_sent |-> <<>>] >>

\* editing_event_id, the event the user is editing
EditingEventId == "1"

\* the fields edit_field_value changes and the messages the user sends
EditFields == {"title", "date", "time", "description"}

EditMessages(field) ==
    CASE field = "title" -> {"Sozvon"}
      [] field = "date" -> {"Zavtra", "10.02.2026", "09.02.2026"}
      [] field = "time" -> {"10 16", "25"}
      [] field = "description" -> {"/skip"}

InitSchedule ==
    /\ data = EventsAtStart
    /\ loaded = <<>>
    /\ events_to_remind = <<>>
    /\ delivered = <<>>
    /\ wall \in StartsOfSchedule
    /\ now_dt = StartOfSchedule
    /\ text = ""
    /\ deadline = None
    /\ pc = "ready"
    /\ result = None
    /\ NoVoice
    /\ NoCalls

\* the job queue runs send_reminders, an interval after the run before: it
\* calls get_events_for_reminder and goes on to the first await, or returns
\* if there is nothing to send
RunSendReminders ==
    /\ events_to_remind = <<>>
    /\ TotalSeconds(wall, StartOfSchedule) < MaxRuns * Interval
    /\ wall' = AddDelta(wall, 0, Interval)
    /\ loaded' = load_data(data)
    /\ events_to_remind' = get_events_for_reminder(loaded', wall')
    /\ UNCHANGED <<data, delivered>>
    /\ UNCHANGED <<now_dt, text, deadline, pc, result>>
    /\ UNCHANGED voice_vars
    /\ UNCHANGED call_vars

\* the await of send_message_safe returns: the reminder reached the user.
\* send_reminders marks it sent on the event it loaded, stores that event
\* and goes on to the next await
Delivered ==
    /\ events_to_remind # <<>>
    /\ LET i == Head(events_to_remind)[1]
           reminder_minutes == Head(events_to_remind)[2]
           event == MarkedSent(loaded[i], reminder_minutes)
       IN /\ delivered' = Append(delivered,
                [id |-> event.id, reminder_minutes |-> reminder_minutes,
                 at |-> wall])
          /\ loaded' = [loaded EXCEPT ![i] = event]
          /\ data' = update_user_event(data, event.id, event)
    /\ events_to_remind' = Tail(events_to_remind)
    /\ UNCHANGED wall
    /\ UNCHANGED <<now_dt, text, deadline, pc, result>>
    /\ UNCHANGED voice_vars
    /\ UNCHANGED call_vars

\* the await of send_message_safe raises: send_reminders continues with the
\* next reminder
DeliveryFailed ==
    /\ events_to_remind # <<>>
    /\ events_to_remind' = Tail(events_to_remind)
    /\ UNCHANGED <<data, loaded, delivered, wall>>
    /\ UNCHANGED <<now_dt, text, deadline, pc, result>>
    /\ UNCHANGED voice_vars
    /\ UNCHANGED call_vars

\* edit_field_value, while send_reminders is suspended or between two runs:
\* the user's message for the field of the event being edited
edit_field_value(event_id, field, message) ==
    /\ WithId(load_data(data), event_id) # {}
    /\ data' = StoreEdited(data, event_id,
                   Edited(EventWithId(load_data(data), event_id), field,
                          message, wall))
    /\ UNCHANGED <<loaded, events_to_remind, delivered, wall>>
    /\ UNCHANGED <<now_dt, text, deadline, pc, result>>
    /\ UNCHANGED voice_vars
    /\ UNCHANGED call_vars

NextSchedule ==
    \/ RunSendReminders
    \/ Delivered
    \/ DeliveryFailed
    \/ \E field \in EditFields :
           \E message \in EditMessages(field) :
               edit_field_value(EditingEventId, field, message)

SpecSchedule == InitSchedule /\ [][NextSchedule]_vars

(***************************************************************************)
(* Properties of parse_deadline.                                           *)
(***************************************************************************)
Returned == pc = "parse_deadline"

\* the text as parse_deadline reads it
Said == Lower(Strip(text))

\* whole days from the reference date to the date of the result
DaysAfter == Ordinal(result) - Ordinal(now_dt)

IsEndOfDay(dt) ==
    dt.hour = 23 /\ dt.minute = 59 /\ dt.second = 59 /\ dt.microsecond = 0

IsAt(dt, h, mi) ==
    dt.hour = h /\ dt.minute = mi /\ dt.second = 0 /\ dt.microsecond = 0

\* C1: for every weekday name (full or abbreviated) and every reference
\* instant, parse_deadline of the name alone returns an instant on that
\* weekday, 1 to 7 days after the reference date (never the reference date
\* itself), at 23:59:59.
C1_WeekdayAlone ==
    (Returned /\ Said \in WeekdayNames) =>
        /\ result # None
        /\ Weekday(result) = WeekdayOf(Said)
        /\ DaysAfter \in 1..7
        /\ IsEndOfDay(result)

\* the reference date is itself the named weekday, and the result is a week on
C1_Witness ==
    /\ Returned /\ Said \in WeekdayNames
    /\ Weekday(now_dt) = WeekdayOf(Said)
    /\ result # None /\ DaysAfter = 7

\* C2: parse_deadline of segodnya / zavtra / poslezavtra alone returns the
\* reference date plus 0 / 1 / 2 days at 23:59:59, whatever the reference's
\* time of day.
C2_RelativeDateAlone ==
    (Returned /\ Said \in RelativeWords) =>
        /\ result # None
        /\ DaysAfter = (CASE Said = "segodnya" -> 0
                          [] Said = "zavtra" -> 1
                          [] Said = "poslezavtra" -> 2)
        /\ IsEndOfDay(result)

\* "zavtra" asked in the last microsecond of the last day of a year
C2_Witness ==
    /\ Returned /\ Said = "zavtra"
    /\ now_dt.month = 12 /\ now_dt.day = 31 /\ now_dt.microsecond = 999999
    /\ result # None
    /\ result.year = now_dt.year + 1 /\ result.month = 1 /\ result.day = 1

BareTime == Cat(<<BOL, Grp(1, D12), Lit(":"), Grp(2, D2), EOL>>)

IsBareTime ==
    LET m == ReMatch(BareTime, Said)
    IN m.ok /\ Int_(Group(m, 1)) <= 23 /\ Int_(Group(m, 2)) <= 59

SaidHour == Int_(Group(ReMatch(BareTime, Said), 1))
SaidMinute == Int_(Group(ReMatch(BareTime, Said), 2))

\* ref.time() < H:MM
RefTimeBefore(h, mi) ==
    \/ now_dt.hour < h
    \/ now_dt.hour = h /\ now_dt.minute < mi

\* C3: parse_deadline of a valid bare time H:MM returns today at H:MM:00 if
\* ref.time() < H:MM and tomorrow at H:MM:00 in every other case, ref.time()
\* equal to H:MM included.
C3_BareTime ==
    (Returned /\ IsBareTime) =>
        /\ result # None
        /\ IsAt(result, SaidHour, SaidMinute)
        /\ DaysAfter = (IF RefTimeBefore(SaidHour, SaidMinute) THEN 0 ELSE 1)

TimeOfDayForm ==
    Cat(<<BOL, Alt(<<Grp(1, D12), Grp(2, NumberWordsKeys)>>), ChasaOpt, Plus(S),
          Grp(3, Alt(<<Lit("utra"), Lit("dnya"), Lit("vechera"), Lit("nochi")>>)),
          EOL>>)

IsTimeOfDayForm == ReMatch(TimeOfDayForm, Said).ok

\* C4: for every time-of-day word form the returned instant is strictly
\* after the reference: today at the normalized hour, minute 0, if that is
\* after the reference instant, and otherwise exactly one day later.
C4_TimeOfDayAfterNow ==
    (Returned /\ IsTimeOfDayForm) =>
        /\ result # None
        /\ Before(now_dt, result)
        /\ IsAt(result, result.hour, 0)
        /\ DaysAfter = (IF Before(now_dt, Replace(now_dt, result.hour, 0, 0, 0))
                        THEN 0 ELSE 1)

IsDnyaForm ==
    LET m == ReMatch(TimeOfDayForm, Said)
    IN m.ok /\ HasGroup(m, 1) /\ Int_(Group(m, 1)) <= 23 /\ Group(m, 3) = "dnya"

\* C5: for every hour word h in 0..23, "h dnya" and "h chasa dnya" resolve
\* to an afternoon hour, within 12..17.
C5_DnyaAfternoon ==
    (Returned /\ IsDnyaForm) => (result # None /\ result.hour \in 12..17)

\* C14: for every text with a numeric field out of its range parse_deadline
\* returns None, never an instant.
C14_OutOfRangeIsNone ==
    (Returned /\ text \in OutOfRangeTexts) => result = None

\* the text as the rules of parse_deadline read it
Heard == NormalizeDeadlineStr(text)

AnyMatch(patterns, str) == \E j \in 1..Len(patterns) : ReMatch(patterns[j], str).ok

\* for each rule of parse_deadline, in the order of Rules: its pattern
\* matches the text
PatternMatches(str) ==
    <<\E j \in 1..Len(time_of_day_patterns) :
          ReMatch(time_of_day_patterns[j][1], str).ok,
      ReMatch(time_before_date_pattern, str).ok,
      AnyMatch(relative_time_patterns, str),
      ReMatch(until_time_pattern, str).ok,
      AnyMatch(relative_date_time_patterns, str),
      ReMatch(hour_only_pattern, str).ok,
      \E j \in 1..Len(relative_dates) : relative_dates[j][1] = str,
      ReMatch(weekday_time_pattern, str).ok,
      IsWeekdayName(str),
      StartsWith(str, "cherez") /\ Len(Split(str)) >= 3 /\ IsInt(Split(str)[2]),
      AnyMatch(time_only_patterns, str),
      AnyMatch(date_time_patterns, str),
      AnyMatch(date_month_patterns, str),
      AnyMatch(date_only_patterns, str)>>

\* the rules whose pattern matches the text
MatchingRules == {k \in DOMAIN PatternMatches(Heard) : PatternMatches(Heard)[k]}

\* what the first of the matching rules produced, None if it produced nothing
FirstMatchResult ==
    LET r == Rules(Heard, now_dt)[FirstOf(MatchingRules)]
    IN IF r = Pass THEN None ELSE r

\* C15: the first rule of parse_deadline whose pattern matches the text
\* determines the result; no later rule is consulted once a pattern has
\* matched.
C15_FirstMatchDecides ==
    (Returned /\ MatchingRules # {}) => result = FirstMatchResult

\* the text is a weekday name, "v" or not, and a time H[:MM]
WeekdayTimeSaid == ReMatch(weekday_time_pattern, Heard)
StatedWeekday == WeekdayOf(Group(WeekdayTimeSaid, 1))
StatedHour == Int_(Group(WeekdayTimeSaid, 2))
StatedMinute ==
    IF HasGroup(WeekdayTimeSaid, 3) THEN Int_(Group(WeekdayTimeSaid, 3)) ELSE 0
ValidWeekdayTime ==
    WeekdayTimeSaid.ok /\ StatedHour <= 23 /\ StatedMinute <= 59

\* H:MM:00 < ref.time()
TimePassed(h, mi) ==
    \/ now_dt.hour > h
    \/ now_dt.hour = h /\ now_dt.minute > mi
    \/ now_dt.hour = h /\ now_dt.minute = mi
          /\ (now_dt.second > 0 \/ now_dt.microsecond > 0)

\* C17: for a weekday name w and a valid time H[:MM], parse_deadline returns
\* an instant at exactly H:MM:00 on weekday w, 0..7 days after the reference
\* date: today only when today is w and the time has not passed, 7 days
\* ahead when today is w and the time has passed, never before the reference.
C17_WeekdayTime ==
    (Returned /\ ValidWeekdayTime) =>
        /\ result # None
        /\ IsAt(result, StatedHour, StatedMinute)
        /\ Weekday(result) = StatedWeekday
        /\ DaysAfter \in 0..7
        /\ DaysAfter = 0 <=>
               (Weekday(now_dt) = StatedWeekday
                /\ ~TimePassed(StatedHour, StatedMinute))
        /\ (Weekday(now_dt) = StatedWeekday /\ TimePassed(StatedHour, StatedMinute))
               => DaysAfter = 7
        /\ ~Before(result, now_dt)

\* today is the named weekday, the stated time has passed, and the result
\* is a week ahead
C17_Witness ==
    /\ Returned /\ ValidWeekdayTime
    /\ Weekday(now_dt) = StatedWeekday
    /\ TimePassed(StatedHour, StatedMinute)
    /\ result # None
    /\ DaysAfter = 7

\* the text is a day and a month name, without a year
DayMonthSaid == ReMatch(date_month_patterns[1], Heard)
DayAndMonthAlone == DayMonthSaid.ok /\ ~HasGroup(DayMonthSaid, 3)
StatedDay == Int_(Group(DayMonthSaid, 1))
StatedMonth == MonthOf(Group(DayMonthSaid, 2))

\* the calendar date month/day precedes the reference's calendar date
PrecedesToday(month, day) ==
    month < now_dt.month \/ (month = now_dt.month /\ day < now_dt.day)

\* C18: for a day and a month name without a year, parse_deadline uses the
\* reference year, and the next year if and only if the date precedes the
\* reference's calendar date; a date equal to today's stays in the
\* reference year whatever the sub-second part of the reference.
C18_YearInferred ==
    (Returned /\ DayAndMonthAlone /\ result # None) =>
        result.year = IF PrecedesToday(StatedMonth, StatedDay)
                      THEN now_dt.year + 1 ELSE now_dt.year

\* the text is DD.MM
DotDateSaid == ReMatch(date_only_patterns[5], Heard)
DotDay == Int_(Group(DotDateSaid, 1))
DotMonth == Int_(Group(DotDateSaid, 2))

\* C19: for a valid day DD and month MM, parse_deadline of "DD.MM" returns
\* that calendar date at 23:59:59, the same instant as for "DD/MM".
C19_DotAndSlashAgree ==
    (Returned /\ DotDateSaid.ok /\ ValidDate(now_dt.year, DotMonth, DotDay)) =>
        /\ result # None
        /\ result.month = DotMonth /\ result.day = DotDay
        /\ IsEndOfDay(result)
        /\ result = parse_deadline(Group(DotDateSaid, 1) \o "/"
                                    \o Group(DotDateSaid, 2), now_dt)

\* the hour and the time-of-day word of a time-of-day form
TimeOfDaySaid == ReMatch(TimeOfDayForm, Said)
HourSaid ==
    IF HasGroup(TimeOfDaySaid, 1) THEN Int_(Group(TimeOfDaySaid, 1))
    ELSE NumberWord(Group(TimeOfDaySaid, 2))
WordSaid == Group(TimeOfDaySaid, 3)

RelativeTimeOfDayForm ==
    Cat(<<BOL, RelWord(1), Plus(S), Opt(Cat(<<Lit("v"), Plus(S)>>)),
          Alt(<<Grp(2, D12), Grp(3, NumberWordsKeys)>>), ChasaOpt, Plus(S),
          Grp(4, Alt(<<Lit("utra"), Lit("dnya"), Lit("vechera"), Lit("nochi")>>)),
          EOL>>)

RelativeTimeOfDaySaid == ReMatch(RelativeTimeOfDayForm, Said)

\* the same hour and time-of-day word with no relative date: "h <bucket>"
HourAndBucketAlone ==
    (IF HasGroup(RelativeTimeOfDaySaid, 2) THEN Group(RelativeTimeOfDaySaid, 2)
     ELSE Group(RelativeTimeOfDaySaid, 3))
    \o " " \o Group(RelativeTimeOfDaySaid, 4)

\* the day offset of the relative date that was said
OffsetSaid == DaysOffset(Group(RelativeTimeOfDaySaid, 1))

\* the result has the hour of parse_deadline("h <bucket>") and minute 0
SameHourAsAlone ==
    LET alone == parse_deadline(HourAndBucketAlone, now_dt)
    IN /\ result # None /\ alone # None
       /\ result.hour = alone.hour
       /\ IsAt(result, result.hour, 0)
       /\ IsAt(alone, alone.hour, 0)

\* the reference date plus the day offset, at the hour of the result, is
\* before the reference instant
OffsetDayPassed ==
    Before(Replace(AddDays(now_dt, OffsetSaid), result.hour, 0, 0, 0), now_dt)

\* C21 as stated: parse_deadline("<relative date> v h <bucket>") and
\* parse_deadline("h <bucket>") yield the same hour and minute 0, the former
\* on the reference date plus the relative date's day offset.
C21_OnOffsetDate ==
    (Returned /\ RelativeTimeOfDaySaid.ok) =>
        /\ SameHourAsAlone
        /\ DaysAfter = OffsetSaid

\* C21 amended: parse_deadline("<relative date> v h <bucket>") and
\* parse_deadline("h <bucket>") yield the same hour and minute 0, the former
\* on the reference date plus the relative date's day offset, or on the day
\* after it when that instant is before the reference instant.
C21_SameHourRules ==
    (Returned /\ RelativeTimeOfDaySaid.ok) =>
        /\ SameHourAsAlone
        /\ DaysAfter = OffsetSaid + (IF OffsetDayPassed THEN 1 ELSE 0)

\* "segodnya v 7 dnya" with the hour already past: 07:00 of the next day, as
\* "7 dnya" alone
C21_Witness ==
    /\ Returned /\ RelativeTimeOfDaySaid.ok
    /\ Group(RelativeTimeOfDaySaid, 1) = "segodnya"
    /\ Group(RelativeTimeOfDaySaid, 4) = "dnya"
    /\ result # None /\ result.hour = 7 /\ DaysAfter = 1
    /\ result = parse_deadline(HourAndBucketAlone, now_dt)

\* a relative date, "v" or not, a time H or H:MM, and nothing else
RelativeDateTimeForm ==
    Cat(<<BOL, RelWord(1), Plus(S), Opt(Cat(<<Lit("v"), Plus(S)>>)),
          Grp(2, D12), Opt(Cat(<<Lit(":"), Grp(3, D2)>>)), EOL>>)

RelativeDateTimeSaid == ReMatch(RelativeDateTimeForm, Said)
RelativeDateSaid == Group(RelativeDateTimeSaid, 1)
HourAfterDate == Int_(Group(RelativeDateTimeSaid, 2))
MinuteAfterDate ==
    IF HasGroup(RelativeDateTimeSaid, 3) THEN Int_(Group(RelativeDateTimeSaid, 3))
    ELSE 0
ValidRelativeDateTime ==
    RelativeDateTimeSaid.ok /\ HourAfterDate <= 23 /\ MinuteAfterDate <= 59

\* C22: for "<relative date> [v] H[:MM]" with a valid time, zavtra and
\* poslezavtra give exactly the reference date + 1 and + 2 days at H:MM:00
\* for every reference instant; segodnya gives today at H:MM:00 if that time
\* has not passed and tomorrow at H:MM:00 if it has.
C22_RelativeDateTime ==
    (Returned /\ ValidRelativeDateTime) =>
        /\ result # None
        /\ IsAt(result, HourAfterDate, MinuteAfterDate)
        /\ RelativeDateSaid = "zavtra" => DaysAfter = 1
        /\ RelativeDateSaid = "poslezavtra" => DaysAfter = 2
        /\ RelativeDateSaid = "segodnya" =>
               DaysAfter = IF TimePassed(HourAfterDate, MinuteAfterDate) THEN 1
                           ELSE 0

\* "zavtra" with a time of day that is earlier than the reference's, asked on
\* the last day of a year: the first of January, with no roll-over
C22_Witness ==
    /\ Returned /\ ValidRelativeDateTime
    /\ RelativeDateSaid = "zavtra"
    /\ TimePassed(HourAfterDate, MinuteAfterDate)
    /\ now_dt.month = 12 /\ now_dt.day = 31
    /\ result # None
    /\ result.year = now_dt.year + 1 /\ result.month = 1 /\ result.day = 1
    /\ IsAt(result, HourAfterDate, MinuteAfterDate)

\* "v", a time H or H:MM, a relative date, and nothing else
TimeBeforeDateForm ==
    Cat(<<BOL, Lit("v"), Plus(S), Grp(1, D12), Opt(Cat(<<Lit(":"), Grp(2, D2)>>)),
          Plus(S), RelWord(3), EOL>>)

TimeBeforeDateSaid == ReMatch(TimeBeforeDateForm, Said)
HourBeforeDate == Int_(Group(TimeBeforeDateSaid, 1))
MinuteBeforeDate ==
    IF HasGroup(TimeBeforeDateSaid, 2) THEN Int_(Group(TimeBeforeDateSaid, 2))
    ELSE 0
ValidTimeBeforeDate ==
    TimeBeforeDateSaid.ok /\ HourBeforeDate <= 23 /\ MinuteBeforeDate <= 59

\* the same relative date and time in the other order: "r v H[:MM]"
DateBeforeTime ==
    Group(TimeBeforeDateSaid, 3) \o " v " \o Group(TimeBeforeDateSaid, 1)
    \o (IF HasGroup(TimeBeforeDateSaid, 2)
        THEN ":" \o Group(TimeBeforeDateSaid, 2) ELSE "")

\* C27: for every relative date r, valid hour H and optional minute MM and
\* every reference instant, parse_deadline("v H[:MM] r") equals
\* parse_deadline("r v H[:MM]"), and normalize_voice_text rewrites the former
\* text into the latter, up to the capital first letter.
C27_OrdersEquivalent ==
    (Returned /\ ValidTimeBeforeDate) =>
        /\ result # None
        /\ result = parse_deadline(DateBeforeTime, now_dt)
        /\ normalize_voice_text(Said) = capitalize_first(DateBeforeTime)
        /\ Lower(normalize_voice_text(Said)) = DateBeforeTime

\* "v 14:30 segodnya" asked just after 14:30: both orders give 14:30 of the
\* next day, and the normalizer puts the date first
C27_Witness ==
    /\ Returned /\ ValidTimeBeforeDate
    /\ Group(TimeBeforeDateSaid, 3) = "segodnya"
    /\ HourBeforeDate = 14 /\ MinuteBeforeDate = 30
    /\ TimePassed(14, 30)
    /\ result # None /\ DaysAfter = 1 /\ IsAt(result, 14, 30)
    /\ result = parse_deadline("segodnya v 14:30", now_dt)
    /\ normalize_voice_text(Said) = "Segodnya v 14:30"

\* the reference instant truncated to whole seconds
ReferenceSecond ==
    Replace(now_dt, now_dt.hour, now_dt.minute, now_dt.second, 0)

\* C28: for every input that names no four-digit year (a time, a time-of-day
\* form, a relative date, a weekday, "cherez N <unit>" for any integer N the
\* parser accepts, "D month", "DD.MM"), an instant that parse_deadline
\* returns is never earlier than the reference instant truncated to whole
\* seconds.
C28_NeverEarlier ==
    (Returned /\ result # None) => ~Before(result, ReferenceSecond)

(***************************************************************************)
(* Properties of extract_deadline_from_text.                               *)
(***************************************************************************)
Extracted == pc = "extract_deadline_from_text"

\* "<segodnya|zavtra|poslezavtra> v H:MM"
RelativeAtExpr ==
    Cat(<<WB, RelWord(1), Plus(S), Lit("v"), Plus(S), Grp(2, D12), Lit(":"),
          Grp(3, D2), WB>>)

\* no pattern of the table finds a date or a time in str
NoDeadlineToken(str) ==
    \A j \in 1..Len(deadline_patterns) :
        ~ReSearch(deadline_patterns[j].re, Lower(str)).ok

\* the words of txt outside txt[b:e], one space between them
Around(txt, b, e) ==
    Join(" ", Split(Slice(txt, 0, b)) \o Split(Slice(txt, e, Len(txt))), 1)

\* the text is a title with one "<relative date> v H:MM" of a valid time
IsTitleWithRelativeAt(m) ==
    /\ m.ok
    /\ Int_(Group(m, 2)) <= 23 /\ Int_(Group(m, 3)) <= 59
    /\ Around(text, m.b, m.e) # ""
    /\ NoDeadlineToken(Around(text, m.b, m.e))

\* C6: for a text made of a non-empty title without date or time tokens and
\* an embedded "<segodnya|zavtra|poslezavtra> v H:MM", the extraction returns
\* the text with the expression excised, free of date and time tokens, and
\* the instant that parse_deadline gives for the expression.
C6_ExtractRelativeAt ==
    Extracted =>
        LET m == ReSearch(RelativeAtExpr, Lower(text))
        IN IsTitleWithRelativeAt(m) =>
             /\ result[1] = Around(text, m.b, m.e)
             /\ result[2] # None
             /\ result[2] = parse_deadline(Group(m, 0), now_dt)
             /\ NoDeadlineToken(result[1])

\* "Sobranie zavtra v 16:00" on 2026-02-10 gives ("Sobranie", 2026-02-11 16:00)
C6_Witness ==
    /\ Extracted
    /\ text = "Sobranie zavtra v 16:00"
    /\ now_dt = At(2026, 2, 10, <<10, 0, 0, 0>>)
    /\ result = <<"Sobranie", At(2026, 2, 11, <<16, 0, 0, 0>>)>>

\* C7: for every text in which no pattern finds a date or time token, or in
\* which no match resolves to an instant, the extraction returns the text
\* unchanged, paired with None.
C7_NoDeadlineUnchanged ==
    (Extracted /\ (NoDeadlineToken(text) \/ ResolvingPatterns(Attempts(text, now_dt)) = {}))
    =>
        result = <<text, None>>

\* "Kupitq xleb" comes back as it is, without a deadline
C7_Witness ==
    /\ Extracted
    /\ text = "Kupitq xleb"
    /\ NoDeadlineToken(text)
    /\ result = <<"Kupitq xleb", None>>

\* excising the span of the winning match leaves nothing of the text
NothingLeft(w) == ~w.skip /\ Cleaned(text, w.start, w.end) = ""

\* C8: for every text, an extraction that returns an instant returns a
\* non-empty remaining text with it; when excising the winning span would
\* leave nothing, the extraction returns exactly the original text and None.
C8_TitleNeverEmpty ==
    Extracted =>
        /\ result[2] # None => result[1] # ""
        /\ NothingLeft(Winner(Attempts(text, now_dt))) => result = <<text, None>>

\* "zavtra v 16:00" resolves, nothing is left of the text, and it is rejected
C8_Witness ==
    /\ Extracted
    /\ text = "zavtra v 16:00"
    /\ NothingLeft(Winner(Attempts(text, now_dt)))
    /\ result = <<"zavtra v 16:00", None>>

\* text_lower of the extraction
Heeded == Lower(Strip(text))

\* the body of the loop for every pattern, by its place in the table
TableAttempts ==
    [j \in 1..Len(deadline_patterns) |->
        Attempt(deadline_patterns[j], Heeded, now_dt)]

\* pattern i of the table is tried before pattern j: a higher priority, or
\* the same priority and an earlier place in the table
ComesBefore(i, j) ==
    \/ deadline_patterns[i].priority > deadline_patterns[j].priority
    \/ /\ deadline_patterns[i].priority = deadline_patterns[j].priority
       /\ i < j

\* C23: the patterns are evaluated in descending priority, those of equal
\* priority in table order, and the winning span is that of the first
\* pattern in this order that matches the lowercased text, passes the
\* contextual filters and whose span parses to an instant; a pattern of lower
\* priority never wins while one of higher priority matches and parses.
C23_PriorityOrder ==
    Extracted =>
        LET attempts == TableAttempts
            resolving == {j \in DOMAIN attempts : Resolved(attempts[j])}
        IN IF resolving = {} THEN result = <<text, None>>
           ELSE \E w \in resolving :
                    /\ \A k \in resolving \ {w} : ComesBefore(w, k)
                    /\ result = ReturnWinner(attempts[w], text)

\* two patterns of the same priority and one of a lower priority all find a
\* deadline, each another one, and the earliest of the table gives the result
C23_Witness ==
    /\ Extracted
    /\ LET attempts == TableAttempts
       IN \E i, j, k \in DOMAIN attempts :
            /\ Resolved(attempts[i]) /\ Resolved(attempts[j])
            /\ Resolved(attempts[k])
            /\ i < j
            /\ deadline_patterns[i].priority = deadline_patterns[j].priority
            /\ deadline_patterns[k].priority < deadline_patterns[j].priority
            /\ attempts[i].dt # attempts[j].dt /\ attempts[i].dt # attempts[k].dt
            /\ result[2] = attempts[i].dt

\* "v H" or "v H:MM" somewhere in the text
BareAtTime ==
    Cat(<<WB, Lit("v"), Plus(S), Grp(1, D12), Opt(Cat(<<Lit(":"), Grp(2, D2)>>)),
          WB>>)

BareAtSaid == ReSearch(BareAtTime, Heeded)
HourAt == Int_(Group(BareAtSaid, 1))
MinuteAt == IF HasGroup(BareAtSaid, 2) THEN Int_(Group(BareAtSaid, 2)) ELSE 0

\* the text starts with a word of the title and has a valid "v H[:MM]"
TitleWithBareAt ==
    /\ BareAtSaid.ok /\ HourAt <= 23 /\ MinuteAt <= 59
    /\ Split(Heeded)[1] # "v" /\ NoDeadlineToken(Split(Heeded)[1])

DateBeforeAt == HasDateBefore(Slice(Heeded, 0, BareAtSaid.b))
AtEndOfText == BareAtSaid.e = Len(Heeded)

\* C24: a bare "v H[:MM]" is accepted as the deadline if and only if a date
\* token immediately precedes it or the match reaches the end of the text; a
\* title ending in "v H" or "v H:MM" with no date token before it yields
\* today or tomorrow at that time, "v H[:MM]" removed from the title, and a
\* "v H[:MM]" in the middle of prose is skipped.
C24_BareAtTime ==
    (Extracted /\ TitleWithBareAt) =>
        /\ (DateBeforeAt \/ AtEndOfText)
               <=> (result[2] # None /\ IsAt(result[2], HourAt, MinuteAt))
        /\ (AtEndOfText /\ ~DateBeforeAt) =>
               result = <<Cleaned(text, BareAtSaid.b, BareAtSaid.e),
                          RollIfPassed(Replace(now_dt, HourAt, MinuteAt, 0, 0),
                                       now_dt)>>

\* the first relative date of the text
RelativeSaid == ReSearch(Cat(<<WB, RelWord(1), WB>>), Heeded)

\* a digit, or "v" and a digit, right after the relative date
TimeFollows ==
    ReMatch(Cat(<<BOL, Star(S), Opt(Cat(<<Lit("v"), Plus(S)>>)), D>>),
            Slice(Heeded, RelativeSaid.e, Len(Heeded))).ok

\* the pattern of a relative date alone, of priority 3
RelativeAlone == deadline_patterns[14]

\* what the pattern of a relative date alone returns when it wins: the text
\* without the word, the day at 23:59:59
RelativeAloneReturn ==
    ReturnCleaned(text, Cleaned(text, RelativeSaid.b, RelativeSaid.e),
                  EndOfDay(AddDays(now_dt, DaysOffset(Group(RelativeSaid, 1)))))

\* C25: the pattern of a relative date alone is skipped whenever its match
\* is immediately followed by a digit or by "v" and a digit; it never
\* returns the date at 23:59:59 for a text of that shape.
C25_RelativeAloneSkipped ==
    (Extracted /\ RelativeSaid.ok /\ TimeFollows) =>
        /\ Attempt(RelativeAlone, Heeded, now_dt).skip
        /\ result # RelativeAloneReturn

\* a relative date followed by an hour that no pattern of a higher priority
\* resolves: no deadline, the text as it came
C25_Witness ==
    /\ Extracted /\ RelativeSaid.ok /\ TimeFollows
    /\ ReSearch(RelativeAlone.re, Heeded).ok
    /\ result = <<text, None>>
    /\ RelativeAloneReturn[2] # None

\* a span with a date and no time: a relative date, "D <month> [YYYY]", a
\* date with separators, "cherez N <unit>", "cherez nedelyu"
DateWithoutTime ==
    Cat(<<BOL,
          Alt(<<RelWord(1),
                Cat(<<D12, Plus(S), MonthName, Opt(Cat(<<Plus(S), D4>>))>>),
                Cat(<<D12, Set({".", "/"}), D12, Opt(Cat(<<Set({".", "/"}), D4>>))>>),
                Cat(<<Lit("cherez"), Plus(S), Plus(D), Plus(S), Plus(Set(LowerLetter))>>),
                Cat(<<Lit("cherez"), Plus(S), Plus(Set(LowerLetter))>>)>>),
          EOL>>)

\* the pattern that wins, its match and the time found right after it
WinningPattern ==
    SortedPatterns[FirstOf(ResolvingPatterns(Attempts(text, now_dt)))]
WinningMatch == ReSearch(WinningPattern.re, Heeded)
TimeAfterWinner ==
    TimeAfter(Slice(Heeded, WinningMatch.e, Len(Heeded)), 1)

\* the time that follows is valid, and dt is at that time
CarriesTime(dt, tm) ==
    IF HasGroup(tm, 3)
    THEN LET hour == IF HasGroup(tm, 1) THEN Int_(Group(tm, 1))
                     ELSE NumberWord(Group(tm, 2))
         IN IsAt(dt, RelativeTimeHour(Group(tm, 3), hour), 0)
    ELSE IsAt(dt, Int_(Group(tm, 1)),
              IF HasGroup(tm, 2) THEN Int_(Group(tm, 2)) ELSE 0)

ValidTimeAfter(tm) ==
    /\ tm.ok
    /\ HasGroup(tm, 1) => Int_(Group(tm, 1)) <= 23
    /\ (~HasGroup(tm, 3) /\ HasGroup(tm, 2)) => Int_(Group(tm, 2)) <= 59

\* C26: whenever the winning span carries a date but no time and the text
\* right after it matches one of the secondary time forms, the span is
\* extended to include that time before parsing: the returned instant
\* carries that time and the time text is removed from the returned title.
C26_SpanExtended ==
    (Extracted /\ ResolvingPatterns(Attempts(text, now_dt)) # {}) =>
        LET m == WinningMatch
            tm == TimeAfterWinner
        IN (ReMatch(DateWithoutTime, Strip(Group(m, 0))).ok /\ ValidTimeAfter(tm))
               => /\ result[2] # None
                  /\ CarriesTime(result[2], tm)
                  /\ result[1] = Cleaned(text, m.b, m.e + tm.e)

(***************************************************************************)
(* Properties of parse_reminder.                                           *)
(***************************************************************************)
Reminded == pc = "parse_reminder"

\* the reminder as parse_reminder reads it, in words
Words == Split(Lower(Strip(text)))

MinuteWords == {"minut", "minuty", "minutu"}
HourWords == {"chas", "chasa", "chasov"}
DayWords == {"denq", "dnya", "dnej"}
WeekWords == {"nedelyu", "nedeli", "nedelq"}

\* the minutes in a unit word
MinutesIn(w) ==
    IF w \in MinuteWords THEN 1
    ELSE IF w \in HourWords THEN 60
    ELSE IF w \in DayWords THEN 1440
    ELSE 10080

\* "za|cherez <unit>", "za|cherez polchasa", "za|cherez N <unit>"
IsRelativeOffset ==
    /\ Len(Words) \in {2, 3}
    /\ Words[1] \in {"za", "cherez"}
    /\ \/ Len(Words) = 2 /\ Words[2] \in {"polchasa", "chas", "denq", "nedelyu"}
       \/ /\ Len(Words) = 3 /\ IsDigits(Words[2])
          /\ Words[3] \in MinuteWords \cup HourWords \cup DayWords \cup WeekWords

\* the offset of a relative reminder, in minutes
OffsetMinutes ==
    IF Len(Words) = 2
    THEN (IF Words[2] = "polchasa" THEN 30 ELSE MinutesIn(Words[2]))
    ELSE Int_(Words[2]) * MinutesIn(Words[3])

\* deadline - offset for "za ..." with a deadline, reference + offset otherwise
OffsetInstant ==
    IF deadline # None /\ Words[1] = "za"
    THEN AddDelta(deadline, 0, 0 - OffsetMinutes * 60)
    ELSE AddDelta(now_dt, 0, OffsetMinutes * 60)

\* C9: for every relative reminder, of the fixed vocabulary or "cherez|za N
\* <minute|hour|day|week>", parse_reminder computes the deadline minus the
\* offset when a deadline is given and the text is a "za ..." form, and the
\* reference plus the offset otherwise; an instant that would fall before
\* the reference becomes the reference plus one minute.
C9_ReminderOffset ==
    (Reminded /\ IsRelativeOffset) =>
        /\ Before(now_dt, OffsetInstant) => result = OffsetInstant
        /\ Before(OffsetInstant, now_dt) => result = AddDelta(now_dt, 0, 60)

\* "za chas" with the deadline at 18:00 gives 17:00
C9_Witness ==
    /\ Reminded
    /\ text = "za chas"
    /\ now_dt = At(2026, 2, 10, <<10, 0, 0, 0>>)
    /\ deadline = At(2026, 2, 10, <<18, 0, 0, 0>>)
    /\ result = At(2026, 2, 10, <<17, 0, 0, 0>>)

\* C10: every instant that parse_reminder returns, for a relative offset, a
\* bare time, a date or a date and time, is strictly after the reference
\* instant.
C10_ReminderAfterNow ==
    (Reminded /\ result # None) => Before(now_dt, result)

\* C11: whenever a deadline is given, every instant that parse_reminder
\* returns is at or before the deadline.
C11_ReminderBeforeDeadline ==
    (Reminded /\ deadline # None /\ result # None) => ~Before(deadline, result)

\* the text as parse_reminder reads it
Asked == Lower(Strip(text))

\* the reminder text is a date with its year and nothing else
FullDateAlone ==
    \E j \in 1..4 : ReMatch(reminder_date_patterns[j], Asked).ok

\* the reminder text is a date with its year followed by a time H:MM
FullDateAndTime ==
    \E j \in 1..Len(reminder_date_time_patterns) :
        ReMatch(reminder_date_time_patterns[j], Asked).ok

\* the time H:MM that ends a reminder text
StatedTime == ReSearch(Cat(<<Grp(1, D12), Set({":", "."}), Grp(2, D2), EOL>>), Asked)

\* C13: an instant that parse_reminder returns for a date alone is at
\* 23:59:59 of its day, and one it returns for a date with a time H:MM is at
\* exactly H:MM:00.
C13_TimeComponent ==
    (Reminded /\ result # None) =>
        /\ FullDateAlone => IsEndOfDay(result)
        /\ FullDateAndTime =>
               IsAt(result, Int_(Group(StatedTime, 1)), Int_(Group(StatedTime, 2)))

(***************************************************************************)
(* Properties of normalize_voice_text.                                     *)
(***************************************************************************)
\* the second of the two calls has returned
NormalizedTwice == pc = "normalize_voice_text" /\ once # <<>>

\* C12: normalize_voice_text is idempotent: applied to what it returned, it
\* returns the same text.
C12_NormalizeIdempotent == NormalizedTwice => result = once[1]

(***************************************************************************)
(* Properties of concurrent calls.                                         *)
(***************************************************************************)
\* what a call returns when it runs alone, with the reference instant the
\* call read
Alone(call) ==
    CASE call.fn = "normalize_voice_text" -> normalize_voice_text(call.text)
      [] call.fn = "parse_deadline" -> parse_deadline(call.text, call.now_dt)
      [] call.fn = "extract_deadline_from_text" ->
           extract_deadline_from_text(call.text, call.now_dt)
      [] call.fn = "parse_reminder" ->
           parse_reminder(call.text, call.now_dt, call.deadline)

Stored(event_id) == EventWithId(data, event_id)

\* the reminder send_reminders is waiting to send is this delivered one again
SelectedAgain(tuple, sent) ==
    /\ loaded[tuple[1]].id = sent.id
    /\ tuple[2] = sent.reminder_minutes

\* C29: across the runs of send_reminders, a minute apart, each pair of an
\* event and a reminder offset is delivered at most once: once delivered,
\* the offset is in reminder_sent of the stored event and no run selects the
\* pair again, although its firing window spans two consecutive runs.
C29_DeliveredOnce ==
    /\ \A j, k \in DOMAIN delivered :
           (/\ delivered[j].id = delivered[k].id
            /\ delivered[j].reminder_minutes = delivered[k].reminder_minutes)
               => j = k
    /\ \A j \in DOMAIN delivered :
           /\ delivered[j].reminder_minutes
                  \in Members(Stored(delivered[j].id).reminder_sent)
           /\ \A q \in DOMAIN events_to_remind :
                  ~SelectedAgain(events_to_remind[q], delivered[j])

\* a run after the one that delivered a reminder finds the reminder still in
\* its firing window, and has nothing to send
C29_Witness ==
    /\ events_to_remind = <<>>
    /\ \E j \in DOMAIN delivered :
           /\ delivered[j].at # wall
           /\ InWindow(TimeDiff(Stored(delivered[j].id),
                                delivered[j].reminder_minutes, wall))

\* the values of the fields edit_field_value changes
FieldValues(event) ==
    <<event.title, event.date, event.time, event.description>>

\* C30: an edit of an event that edit_field_value stores while
\* send_reminders awaits the delivery of the event's reminder is kept: when
\* send_reminders then records the delivery through update_user_event, the
\* title, date, time and description of every stored event stay as they were
\* stored, they do not go back to what send_reminders had loaded.
C30_EditPreserved ==
    [][delivered' # delivered =>
           \A i \in DOMAIN data :
               FieldValues(data'[i]) = FieldValues(data[i])]_vars

====
